---------------------------- MODULE Spec2Model ----------------------------
(***************************************************************************)
(* Dual-store synchronisation of the data dictionary backend.              *)
(*                                                                         *)
(* The relational store (standard_word_roots, standard_fields), the Qdrant *)
(* collections (word_roots, standard_fields), the process-wide JIEBA       *)
(* dictionary and the embedding model are the state.  Every handler is cut *)
(* at its await points (a relational call, a lock acquisition, an index    *)
(* call), one action per step.  Each step appends the external call it     *)
(* makes to calls[p], the record a stub collaborator would keep.           *)
(***************************************************************************)
EXTENDS Integers, Sequences, FiniteSets, TLC

VARIABLES
    phase,        \* main(): "boot_pool", "boot_admin", "boot_dict", "boot_qdrant",
                  \*         "boot_model", "boot_roots", "boot_roots_upsert",
                  \*         "boot_fields", "boot_fields_upsert", "boot_done", "serving";
                  \*         "exited" after a panic
    rootsTbl,     \* standard_word_roots: id -> row
    rootSeq,      \* next value of the SERIAL id of standard_word_roots
    fieldsTbl,    \* standard_fields: id -> row
    fieldSeq,     \* next value of the SERIAL id of standard_fields
    idx,          \* Qdrant: collection -> (point id -> point)
    jieba,        \* JIEBA: word -> frequency of the words added by add_word
    jiebaWriter,  \* holder of JIEBA's write lock, or NoProc
    jiebaReaders, \* holders of JIEBA's read lock
    embedHolder,  \* holder of AppState.embed_model's mutex, or NoProc
    req,          \* request slot -> the handler's locals and position
    resp,         \* request slot -> the response of the finished handler
    calls,        \* process -> sequence of external calls it has made
    events        \* requests sent by the clients and restarts of the process so far

vars == <<phase, rootsTbl, rootSeq, fieldsTbl, fieldSeq, idx, jieba,
          jiebaWriter, jiebaReaders, embedHolder, req, resp, calls, events>>

-----------------------------------------------------------------------------
(* Bounds of the model *)

MaxId == 2        \* ids the two SERIAL sequences may hand out
MaxBatch == 2     \* items in one batch import
MaxFields == 11   \* rows of standard_fields when the searches are studied
MaxPoints == 6    \* points of standard_fields when the searches are studied
MaxComposition == 2   \* word roots in the composition of a standard field
MaxShuffle == 3   \* rows or points a collaborator returns in every possible order
MaxEvents == 3    \* requests of the clients and restarts of the process in one behaviour

(* Program constants *)

JiebaWeight == 99999
CREATED == 201
OK == 200
NO_CONTENT == 204
NOT_FOUND == 404
INTERNAL_SERVER_ERROR == 500
PARTIAL_CONTENT == 206
BAD_REQUEST == 400
LexicalLimit == 10     \* LIMIT 10 of search_field's query
SemanticLimit == 5     \* the limit of SearchPointsBuilder::new(.., .., 5)

-----------------------------------------------------------------------------
(* Values *)

Main == 0                      \* the main task (startup)
NoProc == -1
Slots == {1}                   \* request slots: the handlers in flight at once
Procs == {Main} \cup Slots

WordRoots == "word_roots"
StandardFields == "standard_fields"

\* Option<String>; a String is a sequence of characters
NoneStr == [some |-> FALSE, v |-> <<>>]
Some(s) == [some |-> TRUE, v |-> s]
UnwrapOr(o, d) == IF o.some THEN o.v ELSE d

\* The characters of the model: letters, the ASCII comma, the full-width
\* comma (written "FWC") and the space.
Names == {<<"x">>, <<"y">>}

\* The request bodies of the model: two word roots whose synonyms are not
\* normalized yet, the synonyms of x naming y and sharing b with those of y;
\* a field of each name, without synonyms, composed of stored word roots.
RootPayloads ==
    {[cn_name |-> <<"x">>, en_full_name |-> NoneStr,
      associated_terms |-> Some(<<"Y", "FWC", "B">>)],
     [cn_name |-> <<"y">>, en_full_name |-> NoneStr,
      associated_terms |-> Some(<<" ", "a", ",", " ", "b", " ">>)]}

Put(f, k, v) == [x \in DOMAIN f \cup {k} |-> IF x = k THEN v ELSE f[x]]
Remove(f, k) == [x \in DOMAIN f \ {k} |-> f[x]]
Empty == [x \in {} |-> 0]

-----------------------------------------------------------------------------
(* normalize_terms *)

IsWhitespace(c) == c = " "

ReplaceChar(s, from, to) == [i \in 1..Len(s) |-> IF s[i] = from THEN to ELSE s[i]]

RECURSIVE SplitAcc(_, _, _)
SplitAcc(s, cur, out) ==
    IF s = <<>> THEN (IF cur = <<>> THEN out ELSE Append(out, cur))
    ELSE IF IsWhitespace(Head(s))
         THEN SplitAcc(Tail(s), <<>>, IF cur = <<>> THEN out ELSE Append(out, cur))
         ELSE SplitAcc(Tail(s), Append(cur, Head(s)), out)

split_whitespace(s) == SplitAcc(s, <<>>, <<>>)

RECURSIVE join(_, _)
join(tokens, sep) ==
    IF tokens = <<>> THEN <<>>
    ELSE IF Len(tokens) = 1 THEN tokens[1]
    ELSE tokens[1] \o sep \o join(Tail(tokens), sep)

\* (a bug: the synonyms are stored as they came)
normalize_terms_AsGiven(input) == input

normalize_terms(input) ==
    IF input.some
    THEN Some(join(split_whitespace(ReplaceChar(ReplaceChar(input.v, ",", " "), "FWC", " ")),
                   <<" ">>))
    ELSE NoneStr

-----------------------------------------------------------------------------
(* Strings of the queries: trim, LIKE patterns, the order of names *)

RECURSIVE trim_start(_)
trim_start(s) ==
    IF s # <<>> /\ IsWhitespace(Head(s)) THEN trim_start(Tail(s)) ELSE s

RECURSIVE trim_end(_)
trim_end(s) ==
    IF s # <<>> /\ IsWhitespace(s[Len(s)]) THEN trim_end(SubSeq(s, 1, Len(s) - 1)) ELSE s

\* str::trim
trim(s) == trim_end(trim_start(s))

\* the lower case of a character, as ILIKE folds it
Lower(c) ==
    CASE c = "B" -> "b"
      [] c = "X" -> "x"
      [] c = "Y" -> "y"
      [] OTHER -> c

\* s LIKE pat without regard to case: % is any run of characters, _ is any one
\* character (the characters of the model have no escape character)
RECURSIVE LikeMatch(_, _)
LikeMatch(s, pat) ==
    IF pat = <<>> THEN s = <<>>
    ELSE IF Head(pat) = "%"
         THEN LikeMatch(s, Tail(pat)) \/ (s # <<>> /\ LikeMatch(Tail(s), pat))
    ELSE IF Head(pat) = "_"
         THEN s # <<>> /\ LikeMatch(Tail(s), Tail(pat))
    ELSE s # <<>> /\ Lower(Head(s)) = Lower(Head(pat)) /\ LikeMatch(Tail(s), Tail(pat))

\* <column> ILIKE pat: a NULL column matches nothing
ILike(column, pat) == column.some /\ LikeMatch(column.v, pat)

\* format!("%{}%", input)
Pattern(input) == <<"%">> \o input \o <<"%">>

\* the order of the characters in the collation of cn_name
CharRank(c) ==
    CASE c = " " -> 0
      [] c = "%" -> 1
      [] c = "," -> 2
      [] c = "B" -> 3
      [] c = "X" -> 4
      [] c = "Y" -> 5
      [] c = "_" -> 6
      [] c = "a" -> 7
      [] c = "b" -> 8
      [] c = "x" -> 9
      [] c = "y" -> 10
      [] c = "z" -> 11
      [] OTHER -> 12

\* a < b in ORDER BY cn_name ASC
RECURSIVE StrLess(_, _)
StrLess(a, b) ==
    IF b = <<>> THEN FALSE
    ELSE IF a = <<>> THEN TRUE
    ELSE IF Head(a) = Head(b) THEN StrLess(Tail(a), Tail(b))
    ELSE CharRank(Head(a)) < CharRank(Head(b))

-----------------------------------------------------------------------------
(* Embedding texts, vectors and points *)

\* format!("{} {} {}", cn_name, en_full_name.unwrap_or(""), associated_terms.unwrap_or(""))
RootText(root) ==
    root.cn_name \o <<" ">> \o UnwrapOr(root.en_full_name, <<>>) \o <<" ">>
        \o UnwrapOr(root.associated_terms, <<>>)

\* format!("{} {}", field_cn_name, associated_terms.unwrap_or(""))
FieldText(field) ==
    field.field_cn_name \o <<" ">> \o UnwrapOr(field.associated_terms, <<>>)

\* The model's vector of a text: what the embedding model computes from it.
Vec(text) == [of |-> text]

\* model.embed(texts, None) when it succeeds: one vector per text, same order
Embed(texts) == [i \in 1..Len(texts) |-> Vec(texts[i])]

\* PointStruct::new(id, vector, payload)
Point(id, vec, name) == [id |-> id, vec |-> vec, cn_name |-> name]

\* upsert_points: each point replaces the point of its id
RECURSIVE UpsertPoints(_, _)
UpsertPoints(coll, pts) ==
    IF pts = <<>> THEN coll
    ELSE UpsertPoints(Put(coll, Head(pts).id, Head(pts)), Tail(pts))

\* delete_points(...).points(vec![id])
DeletePoint(coll, id) == Remove(coll, id)

\* (a bug: adding a word drops the words added before)
add_word_Replacing(dict, word, freq) == [w \in {word} |-> freq]

\* Jieba::add_word(word, Some(freq), None)
add_word(dict, word, freq) == Put(dict, word, freq)

-----------------------------------------------------------------------------
(* The record of external calls *)

Call(op, coll, ok, ids) ==
    [op |-> op, coll |-> coll, ok |-> ok, ids |-> ids, texts |-> <<>>, pts |-> <<>>,
     word |-> <<>>, freq |-> 0, rows |-> 0]

EmbedCall(ok, texts) == [Call("embed", "", ok, <<>>) EXCEPT !.texts = texts]
UpsertCall(coll, ok, pts) ==
    [Call("upsert", coll, ok, [i \in 1..Len(pts) |-> pts[i].id]) EXCEPT !.pts = pts]
JiebaCall(word, freq) == [Call("add_word", "", TRUE, <<>>) EXCEPT !.word = word, !.freq = freq]

Log(p, c) == calls' = [calls EXCEPT ![p] = Append(@, c)]

Ops(p, op) == {i \in 1..Len(calls[p]) : calls[p][i].op = op}

-----------------------------------------------------------------------------
(* Request slots *)

NoRoot == [id |-> 0, cn_name |-> <<>>, en_full_name |-> NoneStr, associated_terms |-> NoneStr]
NoField ==
    [id |-> 0, field_cn_name |-> <<>>, associated_terms |-> NoneStr, composition_ids |-> <<>>]

IdleReq ==
    [kind |-> "none", pc |-> "idle", id |-> 0, root |-> NoRoot, field |-> NoField,
     items |-> <<>>, i |-> 0, embs |-> <<>>, pts |-> <<>>, succ |-> 0, errs |-> <<>>,
     wrote |-> FALSE, q |-> <<>>, input |-> <<>>, words |-> <<>>, segs |-> <<>>,
     ids |-> <<>>]

NoReport == [success_count |-> 0, failure_count |-> 0, errors |-> <<>>]
NoResp ==
    [status |-> 0, root |-> NoRoot, field |-> NoField, report |-> NoReport,
     segments |-> <<>>, records |-> <<>>]

Status(s) == [NoResp EXCEPT !.status = s]

\* A slot can take a request when the service is up and the slot is idle; the
\* router serves every route in every run.
Free(r) == phase = "serving" /\ req[r].pc = "idle"

\* The bound of a behaviour: the requests and the restarts still to come.
Bounded == events < MaxEvents

At(r, kind, pc) == phase = "serving" /\ req[r].kind = kind /\ req[r].pc = pc

RootRow(id, p) ==
    [id |-> id, cn_name |-> p.cn_name, en_full_name |-> p.en_full_name,
     associated_terms |-> p.associated_terms]

FieldRow(id, p) ==
    [id |-> id, field_cn_name |-> p.field_cn_name, associated_terms |-> p.associated_terms,
     composition_ids |-> p.composition_ids]

\* the composition lists the clients send: up to MaxComposition ids of stored
\* word roots, in any order, an id more than once too
Compositions == UNION {[1..n -> DOMAIN rootsTbl] : n \in 0..MaxComposition}

FieldPayloads ==
    [field_cn_name : Names, associated_terms : {NoneStr}, composition_ids : Compositions]

-----------------------------------------------------------------------------
(* Results of the collaborators' calls, as the handlers branch on them *)

\* (a bug: the downstream steps run after a failed write too)
OnWrite_NoFailFast(ok, next) == next

\* match result { Ok(..) => <the downstream steps>, Err(e) => <return the failure> }
OnWrite(ok, next) == IF ok THEN next ELSE "done"

\* (a bug: a failed upsert fails the request)
AfterUpsert_Propagated(status, upsertOk) ==
    IF upsertOk THEN status ELSE INTERNAL_SERVER_ERROR

\* let _ = state.qdrant.upsert_points(..).await;  the result is dropped
AfterUpsert(status, upsertOk) == status

\* if let Ok(embeddings) = embeddings_res { .. }  the failure is dropped
AfterEmbedFailure(status) == status

\* (a bug: the point is deleted whatever rows_affected is)
OnDeleted_Always(rows_affected) == "idx_delete"

\* if res.rows_affected() > 0 { <delete the point> } else { NOT_FOUND }
OnDeleted(rows_affected) == IF rows_affected > 0 THEN "idx_delete" ELSE "done"

\* (a bug: delete_root names the collection of delete_field)
DeleteRootTarget_WrongCollection(id) == [coll |-> StandardFields, id |-> id]

\* DeletePointsBuilder::new(<collection>).points(vec![id as u64])
DeleteRootTarget(id) == [coll |-> WordRoots, id |-> id]
DeleteFieldTarget(id) == [coll |-> StandardFields, id |-> id]

\* (a bug: the lock is granted while another task holds it)
CanLock_Always(holder) == TRUE

\* parking_lot::Mutex::lock returns when no task holds the mutex
CanLock(holder) == holder = NoProc

\* (a bug: the guard is forgotten, the mutex stays locked)
drop_Forgotten(guard) == guard

\* the end of the block of a guard: the mutex is unlocked
drop(guard) == NoProc

\* the members of a set of numbers in ascending order
RECURSIVE SeqOf(_)
SeqOf(S) ==
    IF S = {} THEN <<>>
    ELSE LET m == CHOOSE x \in S : \A y \in S : x <= y IN <<m>> \o SeqOf(S \ {m})

Reverse(s) == [k \in 1..Len(s) |-> s[Len(s) + 1 - k]]

\* The orders in which a collaborator may return the rows or points of the
\* ids S when the query states no order (SELECT without ORDER BY, the hits of
\* search_points): every order of up to MaxShuffle ids, the ascending and the
\* descending one of more.
Orders(S) ==
    IF Cardinality(S) <= MaxShuffle
    THEN {f \in [1..Cardinality(S) -> S] : \A i, j \in DOMAIN f : i # j => f[i] # f[j]}
    ELSE {SeqOf(S), Reverse(SeqOf(S))}

-----------------------------------------------------------------------------
(* Startup: main() *)

Init ==
    /\ phase = "boot_pool"
    /\ rootsTbl = Empty
    /\ rootSeq = 1
    /\ fieldsTbl = Empty
    /\ fieldSeq = 1
    /\ idx = [c \in {WordRoots, StandardFields} |-> Empty]
    /\ jieba = Empty
    /\ jiebaWriter = NoProc
    /\ jiebaReaders = {}
    /\ embedHolder = NoProc
    /\ req = [p \in Procs |-> IdleReq]
    /\ resp = [r \in Slots |-> NoResp]
    /\ calls = [p \in Procs |-> <<>>]
    /\ events = 0

\* env::var("DATABASE_URL").expect(..) and PgPoolOptions .. connect(..).expect(..):
\* a missing variable or a failed connection panics and main() ends
OnConnect(ok) == IF ok THEN "boot_admin" ELSE "exited"

\* main() reads DATABASE_URL and opens the connection pool
connect ==
    /\ phase = "boot_pool"
    /\ \E ok \in BOOLEAN : phase' = OnConnect(ok)
    /\ UNCHANGED <<rootsTbl, rootSeq, fieldsTbl, fieldSeq, idx, jieba, jiebaWriter,
                   jiebaReaders, embedHolder, req, resp, calls>>
    /\ UNCHANGED events

\* hash_password(..).expect(..): a failed hash panics and main() ends
OnPasswordHash(ok) == IF ok THEN "boot_dict" ELSE "exited"

\* ensure_default_admin: the account admin is looked up in the table users (a
\* failed read counts as absent) and created when absent, the result of the
\* INSERT dropped; the table users is no part of the stores of the model, so
\* whether the hash is computed, and fails, is open
ensure_default_admin ==
    /\ phase = "boot_admin"
    /\ \E ok \in BOOLEAN : phase' = OnPasswordHash(ok)
    /\ UNCHANGED <<rootsTbl, rootSeq, fieldsTbl, fieldSeq, idx, jieba, jiebaWriter,
                   jiebaReaders, embedHolder, req, resp, calls>>
    /\ UNCHANGED events

\* init_custom_dictionary: add_word for every stored cn_name; a failed read is
\* an empty list (unwrap_or_default)
init_custom_dictionary ==
    /\ phase = "boot_dict"
    /\ \E dbOk \in BOOLEAN :
         LET names == IF dbOk THEN {rootsTbl[i].cn_name : i \in DOMAIN rootsTbl} ELSE {}
         IN /\ jieba' = [w \in DOMAIN jieba \cup names |->
                            IF w \in names THEN JiebaWeight ELSE jieba[w]]
            /\ Log(Main, Call("db_select", WordRoots, dbOk, <<>>))
    /\ phase' = "boot_qdrant"
    /\ UNCHANGED <<rootsTbl, rootSeq, fieldsTbl, fieldSeq, idx, jiebaWriter, jiebaReaders,
                   embedHolder, req, resp>>
    /\ UNCHANGED events

\* env::current_dir().expect(..), Qdrant::from_url(..).build().unwrap() and
\* create_collection(..).await.expect(..): each failure panics and main() ends
OnCollections(ok) == IF ok THEN "boot_model" ELSE "exited"

\* init_qdrant_collections: word_roots and standard_fields are created when
\* collection_exists answers false or fails
init_qdrant_collections ==
    /\ phase = "boot_qdrant"
    /\ \E ok \in BOOLEAN : phase' = OnCollections(ok)
    /\ UNCHANGED <<rootsTbl, rootSeq, fieldsTbl, fieldSeq, idx, jieba, jiebaWriter,
                   jiebaReaders, embedHolder, req, resp, calls>>
    /\ UNCHANGED events

\* TextEmbedding::try_new(..).expect(..): a failed load panics and main() ends
OnModelLoad(ok) == IF ok THEN "boot_roots" ELSE "exited"

\* the load of the embedding model from model/fastembed_cache
try_new ==
    /\ phase = "boot_model"
    /\ \E ok \in BOOLEAN : phase' = OnModelLoad(ok)
    /\ UNCHANGED <<rootsTbl, rootSeq, fieldsTbl, fieldSeq, idx, jieba, jiebaWriter,
                   jiebaReaders, embedHolder, req, resp, calls>>
    /\ UNCHANGED events

\* sync_roots_to_qdrant up to its upsert: read all rows (a failed read is an
\* empty list), return if there are none, else lock the model and embed each
\* row, skipping the rows whose embedding fails
sync_roots_read ==
    /\ phase = "boot_roots"
    /\ \E dbOk \in BOOLEAN :
         LET roots == IF dbOk THEN rootsTbl ELSE Empty IN
         \E rows \in Orders(DOMAIN roots) :
         /\ Log(Main, Call("db_select", WordRoots, dbOk, rows))
         /\ IF DOMAIN roots = {}
            THEN /\ phase' = "boot_fields"
                 /\ UNCHANGED <<embedHolder, req>>
            ELSE /\ CanLock(embedHolder)
                 /\ \E embOk \in SUBSET (DOMAIN roots) :
                      LET Embedded(id) == id \in embOk
                          ids == SelectSeq(rows, Embedded)
                          points == [k \in 1..Len(ids) |->
                                       Point(ids[k], Vec(RootText(roots[ids[k]])),
                                             roots[ids[k]].cn_name)]
                      IN /\ req' = [req EXCEPT ![Main].pts = points]
                         /\ IF points = <<>>
                            THEN phase' = "boot_fields" /\ UNCHANGED embedHolder
                            ELSE phase' = "boot_roots_upsert" /\ embedHolder' = Main
    /\ UNCHANGED <<rootsTbl, rootSeq, fieldsTbl, fieldSeq, idx, jieba, jiebaWriter, jiebaReaders, resp>>
    /\ UNCHANGED events

\* sync_roots_to_qdrant: the upsert of the collected points; the model's
\* guard is dropped when the function returns
sync_roots_upsert ==
    /\ phase = "boot_roots_upsert"
    /\ \E ok \in BOOLEAN :
         /\ idx' = IF ok THEN [idx EXCEPT ![WordRoots] = UpsertPoints(@, req[Main].pts)]
                   ELSE idx
         /\ Log(Main, UpsertCall(WordRoots, ok, req[Main].pts))
    /\ embedHolder' = NoProc
    /\ req' = [req EXCEPT ![Main].pts = <<>>]
    /\ phase' = "boot_fields"
    /\ UNCHANGED <<rootsTbl, rootSeq, fieldsTbl, fieldSeq, jieba, jiebaWriter, jiebaReaders, resp>>
    /\ UNCHANGED events

\* sync_fields_to_qdrant up to its upsert
sync_fields_read ==
    /\ phase = "boot_fields"
    /\ \E dbOk \in BOOLEAN :
         LET fields == IF dbOk THEN fieldsTbl ELSE Empty IN
         \E rows \in Orders(DOMAIN fields) :
         /\ Log(Main, Call("db_select", StandardFields, dbOk, rows))
         /\ IF DOMAIN fields = {}
            THEN /\ phase' = "boot_done"
                 /\ UNCHANGED <<embedHolder, req>>
            ELSE /\ CanLock(embedHolder)
                 /\ \E embOk \in SUBSET (DOMAIN fields) :
                      LET Embedded(id) == id \in embOk
                          ids == SelectSeq(rows, Embedded)
                          points == [k \in 1..Len(ids) |->
                                       Point(ids[k], Vec(FieldText(fields[ids[k]])),
                                             fields[ids[k]].field_cn_name)]
                      IN /\ req' = [req EXCEPT ![Main].pts = points]
                         /\ IF points = <<>>
                            THEN phase' = "boot_done" /\ UNCHANGED embedHolder
                            ELSE phase' = "boot_fields_upsert" /\ embedHolder' = Main
    /\ UNCHANGED <<rootsTbl, rootSeq, fieldsTbl, fieldSeq, idx, jieba, jiebaWriter, jiebaReaders, resp>>
    /\ UNCHANGED events

\* sync_fields_to_qdrant: the upsert of the collected points
sync_fields_upsert ==
    /\ phase = "boot_fields_upsert"
    /\ \E ok \in BOOLEAN :
         /\ idx' = IF ok THEN [idx EXCEPT ![StandardFields] = UpsertPoints(@, req[Main].pts)]
                   ELSE idx
         /\ Log(Main, UpsertCall(StandardFields, ok, req[Main].pts))
    /\ embedHolder' = NoProc
    /\ req' = [req EXCEPT ![Main].pts = <<>>]
    /\ phase' = "boot_done"
    /\ UNCHANGED <<rootsTbl, rootSeq, fieldsTbl, fieldSeq, jieba, jiebaWriter, jiebaReaders, resp>>
    /\ UNCHANGED events

\* TcpListener::bind(addr).await.unwrap(): a failed bind panics and main() ends
OnBind(ok) == IF ok THEN "serving" ELSE "exited"

\* main() builds the router, binds the listener and serves: axum::serve
serve ==
    /\ phase = "boot_done"
    /\ \E ok \in BOOLEAN :
         /\ phase' = OnBind(ok)
         /\ calls' = IF ok THEN [calls EXCEPT ![Main] = <<>>] ELSE calls
    /\ UNCHANGED <<rootsTbl, rootSeq, fieldsTbl, fieldSeq, idx, jieba, jiebaWriter, jiebaReaders,
                   embedHolder, req, resp>>
    /\ UNCHANGED events

\* The process is stopped and started again: the stores keep their contents,
\* the process's memory (JIEBA, the locks, the handlers) starts afresh.
Restart ==
    /\ phase \in {"serving", "exited"}
    /\ Bounded
    /\ \A r \in Slots : req[r].pc = "idle"
    /\ phase' = "boot_pool"
    /\ jieba' = Empty
    /\ jiebaWriter' = NoProc
    /\ jiebaReaders' = {}
    /\ embedHolder' = NoProc
    /\ req' = [p \in Procs |-> IdleReq]
    /\ resp' = [r \in Slots |-> NoResp]
    /\ calls' = [p \in Procs |-> <<>>]
    /\ UNCHANGED <<rootsTbl, rootSeq, fieldsTbl, fieldSeq, idx>>
    /\ events' = events + 1

-----------------------------------------------------------------------------
(* The lock of the embedding model *)

\* let mut model = state.embed_model.lock(): the handler that has reached the
\* block of its embedding takes the mutex and starts model.embed
embed_model_lock(r) ==
    /\ phase = "serving"
    /\ req[r].pc = "lock"
    /\ CanLock(embedHolder)
    /\ embedHolder' = r
    /\ req' = [req EXCEPT ![r].pc = "embed"]
    /\ UNCHANGED <<phase, rootsTbl, rootSeq, fieldsTbl, fieldSeq, idx, jieba, jiebaWriter,
                   jiebaReaders, resp, calls>>
    /\ UNCHANGED events

-----------------------------------------------------------------------------
(* create_root *)

\* normalize_terms, then INSERT INTO standard_word_roots .. RETURNING ..
create_root_insert(r) ==
    /\ Free(r) /\ Bounded
    /\ \E p \in RootPayloads, dbOk \in BOOLEAN :
         LET payload == [p EXCEPT !.associated_terms = normalize_terms(@)]
             root == RootRow(rootSeq, payload)
         IN /\ dbOk => rootSeq <= MaxId
            /\ rootsTbl' = IF dbOk THEN Put(rootsTbl, rootSeq, root) ELSE rootsTbl
            /\ rootSeq' = IF dbOk THEN rootSeq + 1 ELSE rootSeq
            /\ req' = [req EXCEPT ![r] =
                         [IdleReq EXCEPT !.kind = "create_root",
                                         !.pc = OnWrite(dbOk, "jieba"),
                                         !.root = IF dbOk THEN root ELSE NoRoot,
                                         !.wrote = dbOk]]
            /\ resp' = [resp EXCEPT ![r] =
                          IF dbOk THEN NoResp ELSE Status(INTERNAL_SERVER_ERROR)]
            /\ calls' = [calls EXCEPT ![r] =
                           <<Call("db_insert", WordRoots, dbOk,
                                  IF dbOk THEN <<rootSeq>> ELSE <<>>)>>]
    /\ UNCHANGED <<phase, fieldsTbl, fieldSeq, idx, jieba, jiebaWriter, jiebaReaders, embedHolder>>
    /\ events' = events + 1

\* let mut jieba_write = JIEBA.write().await; jieba_write.add_word(..);
\* the guard lives to the end of the Ok arm
create_root_jieba(r) ==
    /\ At(r, "create_root", "jieba")
    /\ jiebaWriter = NoProc
    /\ jiebaReaders = {}
    /\ jiebaWriter' = r
    /\ jieba' = add_word(jieba, req[r].root.cn_name, JiebaWeight)
    /\ Log(r, JiebaCall(req[r].root.cn_name, JiebaWeight))
    /\ req' = [req EXCEPT ![r].pc = "lock"]
    /\ UNCHANGED <<phase, rootsTbl, rootSeq, fieldsTbl, fieldSeq, idx, jiebaReaders,
                   embedHolder, resp>>
    /\ UNCHANGED events

\* { let mut model = state.embed_model.lock(); model.embed(vec![text], None) }
\* a failed embedding skips the upsert and the handler returns CREATED
create_root_embed(r) ==
    /\ At(r, "create_root", "embed")
    /\ embedHolder = r
    /\ embedHolder' = drop(embedHolder)
    /\ \E ok \in BOOLEAN :
         LET texts == <<RootText(req[r].root)>> IN
         /\ Log(r, EmbedCall(ok, texts))
         /\ IF ok
            THEN /\ req' = [req EXCEPT ![r].pc = "upsert", ![r].embs = Embed(texts)]
                 /\ UNCHANGED <<resp, jiebaWriter, jiebaReaders>>
            ELSE /\ req' = [req EXCEPT ![r].pc = "done"]
                 /\ resp' = [resp EXCEPT ![r] =
                               [Status(AfterEmbedFailure(CREATED)) EXCEPT !.root = req[r].root]]
                 /\ jiebaWriter' = NoProc
    /\ UNCHANGED <<phase, rootsTbl, rootSeq, fieldsTbl, fieldSeq, idx, jieba, jiebaReaders>>
    /\ UNCHANGED events

\* upsert_points("word_roots", vec![point]); then (CREATED, Json(root))
create_root_upsert(r) ==
    /\ At(r, "create_root", "upsert")
    /\ \E ok \in BOOLEAN :
         LET point == Point(req[r].root.id, req[r].embs[1], req[r].root.cn_name) IN
         /\ idx' = IF ok THEN [idx EXCEPT ![WordRoots] = UpsertPoints(@, <<point>>)] ELSE idx
         /\ Log(r, UpsertCall(WordRoots, ok, <<point>>))
         /\ resp' = [resp EXCEPT ![r] =
                       [Status(AfterUpsert(CREATED, ok)) EXCEPT !.root = req[r].root]]
    /\ req' = [req EXCEPT ![r].pc = "done"]
    /\ jiebaWriter' = NoProc
    /\ UNCHANGED <<phase, rootsTbl, rootSeq, fieldsTbl, fieldSeq, jieba, jiebaReaders,
                   embedHolder>>
    /\ UNCHANGED events

-----------------------------------------------------------------------------
(* update_root *)

\* normalize_terms, then UPDATE standard_word_roots SET .. WHERE id = $6
\* RETURNING ..; fetch_one fails when no row has the id
update_root_write(r) ==
    /\ Free(r) /\ Bounded
    /\ \E id \in 1..MaxId, p \in RootPayloads, dbOk \in BOOLEAN :
         LET payload == [p EXCEPT !.associated_terms = normalize_terms(@)]
             root == RootRow(id, payload)
             ok == dbOk /\ id \in DOMAIN rootsTbl
         IN /\ rootsTbl' = IF ok THEN Put(rootsTbl, id, root) ELSE rootsTbl
            /\ req' = [req EXCEPT ![r] =
                         [IdleReq EXCEPT !.kind = "update_root",
                                         !.pc = OnWrite(ok, "lock"),
                                         !.id = id,
                                         !.root = IF ok THEN root ELSE NoRoot,
                                         !.wrote = ok]]
            /\ resp' = [resp EXCEPT ![r] =
                          IF ok THEN NoResp ELSE Status(INTERNAL_SERVER_ERROR)]
            /\ calls' = [calls EXCEPT ![r] = <<Call("db_update", WordRoots, ok, <<id>>)>>]
    /\ UNCHANGED <<phase, rootSeq, fieldsTbl, fieldSeq, idx, jieba, jiebaWriter, jiebaReaders, embedHolder>>
    /\ events' = events + 1

\* { let mut model = state.embed_model.lock(); model.embed(vec![text], None) }
update_root_embed(r) ==
    /\ At(r, "update_root", "embed")
    /\ embedHolder = r
    /\ embedHolder' = drop(embedHolder)
    /\ \E ok \in BOOLEAN :
         LET texts == <<RootText(req[r].root)>> IN
         /\ Log(r, EmbedCall(ok, texts))
         /\ IF ok
            THEN /\ req' = [req EXCEPT ![r].pc = "upsert", ![r].embs = Embed(texts)]
                 /\ UNCHANGED resp
            ELSE /\ req' = [req EXCEPT ![r].pc = "done"]
                 /\ resp' = [resp EXCEPT ![r] = Status(AfterEmbedFailure(OK))]
    /\ UNCHANGED <<phase, rootsTbl, rootSeq, fieldsTbl, fieldSeq, idx, jieba,
                   jiebaWriter, jiebaReaders>>
    /\ UNCHANGED events

update_root_upsert(r) ==
    /\ At(r, "update_root", "upsert")
    /\ \E ok \in BOOLEAN :
         LET point == Point(req[r].root.id, req[r].embs[1], req[r].root.cn_name) IN
         /\ idx' = IF ok THEN [idx EXCEPT ![WordRoots] = UpsertPoints(@, <<point>>)] ELSE idx
         /\ Log(r, UpsertCall(WordRoots, ok, <<point>>))
         /\ resp' = [resp EXCEPT ![r] = Status(AfterUpsert(OK, ok))]
    /\ req' = [req EXCEPT ![r].pc = "done"]
    /\ UNCHANGED <<phase, rootsTbl, rootSeq, fieldsTbl, fieldSeq, jieba, jiebaWriter, jiebaReaders,
                   embedHolder>>
    /\ UNCHANGED events

-----------------------------------------------------------------------------
(* delete_root *)

\* DELETE FROM standard_word_roots WHERE id = $1, then the match on the result
delete_root_db(r) ==
    /\ Free(r) /\ Bounded
    /\ \E id \in 1..MaxId, dbOk \in BOOLEAN :
         LET rows_affected == IF dbOk /\ id \in DOMAIN rootsTbl THEN 1 ELSE 0 IN
         /\ rootsTbl' = IF rows_affected > 0 THEN Remove(rootsTbl, id) ELSE rootsTbl
         /\ req' = [req EXCEPT ![r] =
                      [IdleReq EXCEPT !.kind = "delete_root",
                                      !.pc = IF dbOk THEN OnDeleted(rows_affected) ELSE "done",
                                      !.id = id,
                                      !.wrote = rows_affected > 0]]
         /\ resp' = [resp EXCEPT ![r] =
                       IF ~dbOk THEN Status(INTERNAL_SERVER_ERROR)
                       ELSE IF OnDeleted(rows_affected) = "done" THEN Status(NOT_FOUND)
                       ELSE NoResp]
         /\ calls' = [calls EXCEPT ![r] =
                        <<[Call("db_delete", WordRoots, dbOk, <<id>>)
                             EXCEPT !.rows = rows_affected]>>]
    /\ UNCHANGED <<phase, rootSeq, fieldsTbl, fieldSeq, idx, jieba, jiebaWriter, jiebaReaders, embedHolder>>
    /\ events' = events + 1

\* let _ = state.qdrant.delete_points(..).await; NO_CONTENT
delete_root_idx(r) ==
    /\ At(r, "delete_root", "idx_delete")
    /\ \E ok \in BOOLEAN :
         LET t == DeleteRootTarget(req[r].id) IN
         /\ idx' = IF ok THEN [idx EXCEPT ![t.coll] = DeletePoint(@, t.id)] ELSE idx
         /\ Log(r, Call("idx_delete", t.coll, ok, <<t.id>>))
    /\ req' = [req EXCEPT ![r].pc = "done"]
    /\ resp' = [resp EXCEPT ![r] = Status(NO_CONTENT)]
    /\ UNCHANGED <<phase, rootsTbl, rootSeq, fieldsTbl, fieldSeq, jieba, jiebaWriter, jiebaReaders,
                   embedHolder>>
    /\ UNCHANGED events

-----------------------------------------------------------------------------
(* batch_create_roots *)

BatchInputs == UNION {[1..n -> RootPayloads] : n \in 0..MaxBatch}

\* (a bug: the embeddings are indexed by the number of rows stored so far)
EmbeddingAt_BySuccessCount(embs, index, success_count) == embs[success_count + 1]

\* all_embeddings[index]: the embedding of the row at loop position index
EmbeddingAt(embs, index, success_count) == embs[index]

\* (a bug: the first failed row ends the loop)
AfterRow_AbortOnFailure(ok, i, n) == IF ok /\ i < n THEN "insert" ELSE "upsert"

\* the for loop goes on to the next row whatever the row's result
AfterRow(ok, i, n) == IF i < n THEN "insert" ELSE "upsert"

\* (a bug: success_count counts every row)
CountSuccess_EveryRow(success_count, ok) == success_count + 1

\* success_count += 1 in the Ok arm only
CountSuccess(success_count, ok) == IF ok THEN success_count + 1 ELSE success_count

\* (a bug: the import goes on to its rows after a failed batched embedding)
OnBatchEmbed_CarryOn(ok, n) == IF n = 0 THEN "upsert" ELSE "insert"

\* Err(e) => return (INTERNAL_SERVER_ERROR, ..) on a failed batched embedding
OnBatchEmbed(ok, n) == IF ~ok THEN "done" ELSE IF n = 0 THEN "upsert" ELSE "insert"

\* batch_create_roots up to its embedding: normalize every item, build its
\* text, lock the model
batch_create_roots_lock(r) ==
    /\ Free(r) /\ Bounded
    /\ CanLock(embedHolder)
    /\ embedHolder' = r
    /\ \E items \in BatchInputs :
         LET n == Len(items)
             processed_items ==
                 [k \in 1..n |->
                    [items[k] EXCEPT !.associated_terms = normalize_terms(@)]]
         IN req' = [req EXCEPT ![r] =
                      [IdleReq EXCEPT !.kind = "batch_create_roots",
                                      !.pc = "embed",
                                      !.items = processed_items,
                                      !.i = 1]]
    /\ resp' = [resp EXCEPT ![r] = NoResp]
    /\ calls' = [calls EXCEPT ![r] = <<>>]
    /\ UNCHANGED <<phase, rootsTbl, rootSeq, fieldsTbl, fieldSeq, idx, jieba,
                   jiebaWriter, jiebaReaders>>
    /\ events' = events + 1

\* one model.embed over all texts; the guard is dropped at the end of the block
batch_create_roots_embed(r) ==
    /\ At(r, "batch_create_roots", "embed")
    /\ embedHolder = r
    /\ embedHolder' = drop(embedHolder)
    /\ \E ok \in BOOLEAN :
         LET n == Len(req[r].items)
             texts_to_embed == [k \in 1..n |-> RootText(req[r].items[k])]
         IN /\ req' = [req EXCEPT ![r].pc = OnBatchEmbed(ok, n),
                                   ![r].embs = IF ok THEN Embed(texts_to_embed) ELSE <<>>]
            /\ resp' = [resp EXCEPT ![r] =
                          IF OnBatchEmbed(ok, n) = "done"
                          THEN Status(INTERNAL_SERVER_ERROR) ELSE NoResp]
            /\ Log(r, EmbedCall(ok, texts_to_embed))
    /\ UNCHANGED <<phase, rootsTbl, rootSeq, fieldsTbl, fieldSeq, idx, jieba,
                   jiebaWriter, jiebaReaders>>
    /\ UNCHANGED events

\* the INSERT of row i; a failed row is recorded in errors and the loop goes on
batch_create_roots_insert(r) ==
    /\ At(r, "batch_create_roots", "insert")
    /\ \E dbOk \in BOOLEAN :
         LET i == req[r].i
             item == req[r].items[i]
             root == RootRow(rootSeq, item)
         IN /\ dbOk => rootSeq <= MaxId
            /\ rootsTbl' = IF dbOk THEN Put(rootsTbl, rootSeq, root) ELSE rootsTbl
            /\ rootSeq' = IF dbOk THEN rootSeq + 1 ELSE rootSeq
            /\ Log(r, [Call("db_insert", WordRoots, dbOk, IF dbOk THEN <<rootSeq>> ELSE <<>>)
                         EXCEPT !.rows = i])
            /\ req' = IF dbOk
                      THEN [req EXCEPT ![r].pc = "jieba", ![r].root = root]
                      ELSE [req EXCEPT ![r].pc = AfterRow(FALSE, i, Len(req[r].items)),
                                       ![r].i = i + 1,
                                       ![r].succ = CountSuccess(@, FALSE),
                                       ![r].errs = Append(@, [row |-> i, cn_name |-> item.cn_name])]
    /\ UNCHANGED <<phase, fieldsTbl, fieldSeq, idx, jieba, jiebaWriter, jiebaReaders, embedHolder, resp>>
    /\ UNCHANGED events

\* the Ok arm of row i: success_count += 1, add_word under the write lock,
\* push the point built from all_embeddings[index]
batch_create_roots_jieba(r) ==
    /\ At(r, "batch_create_roots", "jieba")
    /\ jiebaWriter = NoProc
    /\ jiebaReaders = {}
    /\ LET i == req[r].i
           root == req[r].root
           point == Point(root.id, EmbeddingAt(req[r].embs, i, req[r].succ), root.cn_name)
       IN /\ jieba' = add_word(jieba, root.cn_name, JiebaWeight)
          /\ Log(r, JiebaCall(root.cn_name, JiebaWeight))
          /\ req' = [req EXCEPT ![r].pc = AfterRow(TRUE, i, Len(req[r].items)),
                                ![r].i = i + 1,
                                ![r].succ = CountSuccess(@, TRUE),
                                ![r].pts = Append(@, point)]
    /\ UNCHANGED <<phase, rootsTbl, rootSeq, fieldsTbl, fieldSeq, idx, jiebaWriter, jiebaReaders,
                   embedHolder, resp>>
    /\ UNCHANGED events

\* if !points_to_upsert.is_empty() { upsert_points(..) }; (OK, Json(ImportResult))
batch_create_roots_upsert(r) ==
    /\ At(r, "batch_create_roots", "upsert")
    /\ \E ok \in BOOLEAN :
         /\ IF req[r].pts # <<>>
            THEN /\ idx' = IF ok THEN [idx EXCEPT ![WordRoots] = UpsertPoints(@, req[r].pts)]
                           ELSE idx
                 /\ Log(r, UpsertCall(WordRoots, ok, req[r].pts))
            ELSE /\ ok
                 /\ UNCHANGED <<idx, calls>>
         /\ resp' = [resp EXCEPT ![r] =
                       [Status(AfterUpsert(OK, ok)) EXCEPT
                          !.report = [success_count |-> req[r].succ,
                                      failure_count |-> Len(req[r].errs),
                                      errors |-> req[r].errs]]]
    /\ req' = [req EXCEPT ![r].pc = "done"]
    /\ UNCHANGED <<phase, rootsTbl, rootSeq, fieldsTbl, fieldSeq, jieba, jiebaWriter, jiebaReaders,
                   embedHolder>>
    /\ UNCHANGED events

-----------------------------------------------------------------------------
(* create_field, update_field, delete_field *)

\* INSERT INTO standard_fields .. RETURNING ..
create_field_insert(r) ==
    /\ Free(r) /\ Bounded
    /\ \E p \in FieldPayloads, dbOk \in BOOLEAN :
         LET field == FieldRow(fieldSeq, p) IN
         /\ dbOk => fieldSeq <= MaxId
         /\ fieldsTbl' = IF dbOk THEN Put(fieldsTbl, fieldSeq, field) ELSE fieldsTbl
         /\ fieldSeq' = IF dbOk THEN fieldSeq + 1 ELSE fieldSeq
         /\ req' = [req EXCEPT ![r] =
                      [IdleReq EXCEPT !.kind = "create_field",
                                      !.pc = OnWrite(dbOk, "lock"),
                                      !.field = IF dbOk THEN field ELSE NoField,
                                      !.wrote = dbOk]]
         /\ resp' = [resp EXCEPT ![r] =
                       IF dbOk THEN NoResp ELSE Status(INTERNAL_SERVER_ERROR)]
         /\ calls' = [calls EXCEPT ![r] =
                        <<Call("db_insert", StandardFields, dbOk,
                               IF dbOk THEN <<fieldSeq>> ELSE <<>>)>>]
    /\ UNCHANGED <<phase, rootsTbl, rootSeq, idx, jieba, jiebaWriter, jiebaReaders, embedHolder>>
    /\ events' = events + 1

\* UPDATE standard_fields SET .. WHERE id=$6 RETURNING ..
update_field_write(r) ==
    /\ Free(r) /\ Bounded
    /\ \E id \in 1..MaxId, p \in FieldPayloads, dbOk \in BOOLEAN :
         LET field == FieldRow(id, p)
             ok == dbOk /\ id \in DOMAIN fieldsTbl
         IN /\ fieldsTbl' = IF ok THEN Put(fieldsTbl, id, field) ELSE fieldsTbl
            /\ req' = [req EXCEPT ![r] =
                         [IdleReq EXCEPT !.kind = "update_field",
                                         !.pc = OnWrite(ok, "lock"),
                                         !.id = id,
                                         !.field = IF ok THEN field ELSE NoField,
                                         !.wrote = ok]]
            /\ resp' = [resp EXCEPT ![r] =
                          IF ok THEN NoResp ELSE Status(INTERNAL_SERVER_ERROR)]
            /\ calls' = [calls EXCEPT ![r] = <<Call("db_update", StandardFields, ok, <<id>>)>>]
    /\ UNCHANGED <<phase, rootsTbl, rootSeq, fieldSeq, idx, jieba, jiebaWriter, jiebaReaders, embedHolder>>
    /\ events' = events + 1

\* the embedding of create_field (CREATED, Json(field)) and update_field (OK)
field_embed(r) ==
    /\ phase = "serving"
    /\ req[r].kind \in {"create_field", "update_field"}
    /\ req[r].pc = "embed"
    /\ embedHolder = r
    /\ embedHolder' = drop(embedHolder)
    /\ \E ok \in BOOLEAN :
         LET texts == <<FieldText(req[r].field)>>
             status == IF req[r].kind = "create_field" THEN CREATED ELSE OK
         IN /\ Log(r, EmbedCall(ok, texts))
            /\ IF ok
               THEN /\ req' = [req EXCEPT ![r].pc = "upsert", ![r].embs = Embed(texts)]
                    /\ UNCHANGED resp
               ELSE /\ req' = [req EXCEPT ![r].pc = "done"]
                    /\ resp' = [resp EXCEPT ![r] =
                                  [Status(AfterEmbedFailure(status)) EXCEPT
                                     !.field = IF req[r].kind = "create_field"
                                               THEN req[r].field ELSE NoField]]
    /\ UNCHANGED <<phase, rootsTbl, rootSeq, fieldsTbl, fieldSeq, idx, jieba,
                   jiebaWriter, jiebaReaders>>
    /\ UNCHANGED events

\* upsert_points("standard_fields", vec![point]) of create_field and update_field
field_upsert(r) ==
    /\ phase = "serving"
    /\ req[r].kind \in {"create_field", "update_field"}
    /\ req[r].pc = "upsert"
    /\ \E ok \in BOOLEAN :
         LET point == Point(req[r].field.id, req[r].embs[1], req[r].field.field_cn_name)
             status == IF req[r].kind = "create_field" THEN CREATED ELSE OK
         IN /\ idx' = IF ok THEN [idx EXCEPT ![StandardFields] = UpsertPoints(@, <<point>>)]
                      ELSE idx
            /\ Log(r, UpsertCall(StandardFields, ok, <<point>>))
            /\ resp' = [resp EXCEPT ![r] =
                          [Status(AfterUpsert(status, ok)) EXCEPT
                             !.field = IF req[r].kind = "create_field"
                                       THEN req[r].field ELSE NoField]]
    /\ req' = [req EXCEPT ![r].pc = "done"]
    /\ UNCHANGED <<phase, rootsTbl, rootSeq, fieldsTbl, fieldSeq, jieba, jiebaWriter, jiebaReaders,
                   embedHolder>>
    /\ UNCHANGED events

\* DELETE FROM standard_fields WHERE id = $1, then the match on the result
delete_field_db(r) ==
    /\ Free(r) /\ Bounded
    /\ \E id \in 1..MaxId, dbOk \in BOOLEAN :
         LET rows_affected == IF dbOk /\ id \in DOMAIN fieldsTbl THEN 1 ELSE 0 IN
         /\ fieldsTbl' = IF rows_affected > 0 THEN Remove(fieldsTbl, id) ELSE fieldsTbl
         /\ req' = [req EXCEPT ![r] =
                      [IdleReq EXCEPT !.kind = "delete_field",
                                      !.pc = IF dbOk THEN OnDeleted(rows_affected) ELSE "done",
                                      !.id = id,
                                      !.wrote = rows_affected > 0]]
         /\ resp' = [resp EXCEPT ![r] =
                       IF ~dbOk THEN Status(INTERNAL_SERVER_ERROR)
                       ELSE IF OnDeleted(rows_affected) = "done" THEN Status(NOT_FOUND)
                       ELSE NoResp]
         /\ calls' = [calls EXCEPT ![r] =
                        <<[Call("db_delete", StandardFields, dbOk, <<id>>)
                             EXCEPT !.rows = rows_affected]>>]
    /\ UNCHANGED <<phase, rootsTbl, rootSeq, fieldSeq, idx, jieba, jiebaWriter, jiebaReaders, embedHolder>>
    /\ events' = events + 1

delete_field_idx(r) ==
    /\ At(r, "delete_field", "idx_delete")
    /\ \E ok \in BOOLEAN :
         LET t == DeleteFieldTarget(req[r].id) IN
         /\ idx' = IF ok THEN [idx EXCEPT ![t.coll] = DeletePoint(@, t.id)] ELSE idx
         /\ Log(r, Call("idx_delete", t.coll, ok, <<t.id>>))
    /\ req' = [req EXCEPT ![r].pc = "done"]
    /\ resp' = [resp EXCEPT ![r] = Status(NO_CONTENT)]
    /\ UNCHANGED <<phase, rootsTbl, rootSeq, fieldsTbl, fieldSeq, jieba, jiebaWriter, jiebaReaders,
                   embedHolder>>
    /\ UNCHANGED events

-----------------------------------------------------------------------------
(* get_field_details *)

\* UNNEST($1::INT[]) WITH ORDINALITY AS x(id, ord)
Unnest(ids) == {[id |-> ids[k], ord |-> k] : k \in 1..Len(ids)}

\* .. JOIN standard_word_roots r ON r.id = x.id: the pairs whose root is stored
Joined(table, ids) == {x \in Unnest(ids) : x.id \in DOMAIN table}

\* (a bug: the roots come in the order of their ids)
OrderKey_ById(x) == x.id

\* ORDER BY x.ord
OrderKey(x) == x.ord

\* the results fetch_all may return for the join: the roots of the joined
\* pairs in an order the ORDER BY clause allows
DetailRows(table, ids) ==
    LET pairs == Joined(table, ids)
        n == Cardinality(pairs)
    IN {[k \in 1..n |-> table[f[k].id]] :
          f \in {g \in [1..n -> pairs] :
                   /\ \A i, j \in 1..n : i # j => g[i] # g[j]
                   /\ \A i, j \in 1..n : i < j => OrderKey(g[i]) <= OrderKey(g[j])}}

\* SELECT composition_ids FROM standard_fields WHERE id = $1 and the match on
\* its result: NOT_FOUND without a row, OK and no root for an empty list
get_field_details_field(r) ==
    /\ Free(r) /\ Bounded
    /\ \E id \in 1..MaxId, dbOk \in BOOLEAN :
         LET found == dbOk /\ id \in DOMAIN fieldsTbl
             ids == IF found THEN fieldsTbl[id].composition_ids ELSE <<>>
         IN /\ req' = [req EXCEPT ![r] =
                         [IdleReq EXCEPT !.kind = "get_field_details",
                                         !.pc = IF ids # <<>> THEN "roots" ELSE "done",
                                         !.id = id,
                                         !.ids = ids]]
            /\ resp' = [resp EXCEPT ![r] =
                          IF ~dbOk THEN Status(INTERNAL_SERVER_ERROR)
                          ELSE IF ~found THEN Status(NOT_FOUND)
                          ELSE IF ids = <<>> THEN Status(OK)
                          ELSE NoResp]
            /\ calls' = [calls EXCEPT ![r] =
                           <<[Call("db_select", StandardFields, dbOk, ids)
                                EXCEPT !.rows = IF found THEN 1 ELSE 0]>>]
    /\ UNCHANGED <<phase, rootsTbl, rootSeq, fieldsTbl, fieldSeq, idx, jieba, jiebaWriter,
                   jiebaReaders, embedHolder>>
    /\ events' = events + 1

\* the join of the composition with standard_word_roots, and the match on its
\* result: OK with the roots, INTERNAL_SERVER_ERROR for a failed query
get_field_details_roots(r) ==
    /\ At(r, "get_field_details", "roots")
    /\ \E dbOk \in BOOLEAN :
         \E roots \in (IF dbOk THEN DetailRows(rootsTbl, req[r].ids) ELSE {<<>>}) :
            /\ Log(r, Call("db_select", WordRoots, dbOk, req[r].ids))
            /\ resp' = [resp EXCEPT ![r] =
                          IF dbOk THEN [Status(OK) EXCEPT !.records = roots]
                          ELSE Status(INTERNAL_SERVER_ERROR)]
    /\ req' = [req EXCEPT ![r].pc = "done"]
    /\ UNCHANGED <<phase, rootsTbl, rootSeq, fieldsTbl, fieldSeq, idx, jieba, jiebaWriter,
                   jiebaReaders, embedHolder, events>>

-----------------------------------------------------------------------------
(* clear_all_roots, clear_all_fields *)

\* clear_all_roots: let _ = delete_points(..); (OK, ..)  whatever the result
ClearRootsStatus(q_ok) == OK

\* clear_all_fields: match q_res { Ok(_) => OK, Err(e) => PARTIAL_CONTENT }
ClearFieldsStatus(q_ok) == IF q_ok THEN OK ELSE PARTIAL_CONTENT

\* TRUNCATE TABLE standard_word_roots RESTART IDENTITY
clear_all_roots_db(r) ==
    /\ Free(r) /\ Bounded
    /\ \E dbOk \in BOOLEAN :
         /\ rootsTbl' = IF dbOk THEN Empty ELSE rootsTbl
         /\ rootSeq' = IF dbOk THEN 1 ELSE rootSeq
         /\ req' = [req EXCEPT ![r] =
                      [IdleReq EXCEPT !.kind = "clear_all_roots",
                                      !.pc = OnWrite(dbOk, "idx_clear"),
                                      !.wrote = dbOk]]
         /\ resp' = [resp EXCEPT ![r] =
                       IF dbOk THEN NoResp ELSE Status(INTERNAL_SERVER_ERROR)]
         /\ calls' = [calls EXCEPT ![r] = <<Call("db_truncate", WordRoots, dbOk, <<>>)>>]
    /\ UNCHANGED <<phase, fieldsTbl, fieldSeq, idx, jieba, jiebaWriter, jiebaReaders,
                   embedHolder>>
    /\ events' = events + 1

\* delete_points("word_roots").points(Filter::default()): every point
clear_all_roots_idx(r) ==
    /\ At(r, "clear_all_roots", "idx_clear")
    /\ \E ok \in BOOLEAN :
         /\ idx' = IF ok THEN [idx EXCEPT ![WordRoots] = Empty] ELSE idx
         /\ Log(r, Call("idx_clear", WordRoots, ok, <<>>))
         /\ resp' = [resp EXCEPT ![r] = Status(ClearRootsStatus(ok))]
    /\ req' = [req EXCEPT ![r].pc = "done"]
    /\ UNCHANGED <<phase, rootsTbl, rootSeq, fieldsTbl, fieldSeq, jieba, jiebaWriter,
                   jiebaReaders, embedHolder>>
    /\ UNCHANGED events

\* TRUNCATE TABLE standard_fields RESTART IDENTITY
clear_all_fields_db(r) ==
    /\ Free(r) /\ Bounded
    /\ \E dbOk \in BOOLEAN :
         /\ fieldsTbl' = IF dbOk THEN Empty ELSE fieldsTbl
         /\ fieldSeq' = IF dbOk THEN 1 ELSE fieldSeq
         /\ req' = [req EXCEPT ![r] =
                      [IdleReq EXCEPT !.kind = "clear_all_fields",
                                      !.pc = OnWrite(dbOk, "idx_clear"),
                                      !.wrote = dbOk]]
         /\ resp' = [resp EXCEPT ![r] =
                       IF dbOk THEN NoResp ELSE Status(INTERNAL_SERVER_ERROR)]
         /\ calls' = [calls EXCEPT ![r] = <<Call("db_truncate", StandardFields, dbOk, <<>>)>>]
    /\ UNCHANGED <<phase, rootsTbl, rootSeq, idx, jieba, jiebaWriter, jiebaReaders,
                   embedHolder>>
    /\ events' = events + 1

\* delete_points("standard_fields").points(Filter::default()), then the match
\* on its result
clear_all_fields_idx(r) ==
    /\ At(r, "clear_all_fields", "idx_clear")
    /\ \E ok \in BOOLEAN :
         /\ idx' = IF ok THEN [idx EXCEPT ![StandardFields] = Empty] ELSE idx
         /\ Log(r, Call("idx_clear", StandardFields, ok, <<>>))
         /\ resp' = [resp EXCEPT ![r] = Status(ClearFieldsStatus(ok))]
    /\ req' = [req EXCEPT ![r].pc = "done"]
    /\ UNCHANGED <<phase, rootsTbl, rootSeq, fieldsTbl, fieldSeq, jieba, jiebaWriter,
                   jiebaReaders, embedHolder>>
    /\ UNCHANGED events

-----------------------------------------------------------------------------
(* suggest_field_name, suggest_mapping *)

\* the ids of the rows a query returned
IdsOf(rows) == [k \in 1..Len(rows) |-> rows[k].id]

\* The texts the clients ask about.
SuggestInputs ==
    {<<>>, <<" ">>, <<"y">>, <<"b">>, <<" ", "z">>, <<"a", " ", "b">>, <<"y", "z">>}

\* WHERE cn_name = $1 OR associated_terms ILIKE $2
Matches(table, word) ==
    {id \in DOMAIN table :
        table[id].cn_name = word \/ ILike(table[id].associated_terms, Pattern(word))}

\* (a bug: the candidates are ordered by name only)
Before_ByNameOnly(a, b, word) == StrLess(a.cn_name, b.cn_name)

\* ORDER BY (cn_name = $1) DESC, cn_name ASC: row a sorts strictly before row b
Before(a, b, word) ==
    \/ a.cn_name = word /\ b.cn_name # word
    \/ (a.cn_name = word) = (b.cn_name = word) /\ StrLess(a.cn_name, b.cn_name)

\* the results fetch_all may return for the query: the matching rows in an
\* order the ORDER BY clause allows (rows of equal keys come in any order)
Candidates(table, word) ==
    LET ids == Matches(table, word)
        n == Cardinality(ids)
    IN {[k \in 1..n |-> table[f[k]]] :
          f \in {g \in [1..n -> ids] :
                   /\ \A i, j \in 1..n : i # j => g[i] # g[j]
                   /\ \A i, j \in 1..n : i < j => ~Before(table[g[j]], table[g[i]], word)}}

\* jieba_read.cut(input, false): the tokens are consecutive pieces of the input;
\* where the segmenter cuts is the library's choice
RECURSIVE Cuts(_)
Cuts(s) ==
    IF s = <<>> THEN {<<>>}
    ELSE UNION {{<<SubSeq(s, 1, k)>> \o rest : rest \in Cuts(SubSeq(s, k + 1, Len(s)))} :
                  k \in 1..Len(s)}

\* (a bug: the empty input is resolved like any other)
OnTrimmed_NoEmptyCheck(input) == "full"

\* if input.is_empty() { return vec![]; }
OnTrimmed(input) == IF input = <<>> THEN "done" ELSE "full"

\* (a bug: the input is segmented whatever the whole phrase matched)
OnFull_AlwaysCut(full_candidates) == "cut"

\* if !full_candidates.is_empty() { return vec![Segment { .. }]; }
OnFull(full_candidates) == IF full_candidates # <<>> THEN "done" ELSE "cut"

\* (a bug: a token without candidates is dropped)
PushSegment_DropUnmatched(segments, word, candidates) ==
    IF candidates = <<>> THEN segments
    ELSE Append(segments, [word |-> word, candidates |-> candidates])

\* segments.push(Segment { word: trimmed.to_string(), candidates })
PushSegment(segments, word, candidates) ==
    Append(segments, [word |-> word, candidates |-> candidates])

\* (a bug: a failed query ends the resolution)
AfterQuery_FailFast(ok, next) == IF ok THEN next ELSE "done"

\* .fetch_all(pool).await.unwrap_or_default(): the failure is not looked at
AfterQuery(ok, next) == next

\* the two ways suggest_field_name runs: called by the handler suggest_mapping,
\* or called with any text
SuggestKinds == {"suggest_mapping", "suggest_field_name"}

Suggests(r, pc) == phase = "serving" /\ req[r].kind \in SuggestKinds /\ req[r].pc = pc

\* suggest_field_name returns the segments; suggest_mapping answers
\* (StatusCode::OK, Json(SuggestResponse { segments }))
Returned(kind, segments) ==
    [(IF kind = "suggest_mapping" THEN Status(OK) ELSE NoResp) EXCEPT !.segments = segments]

\* suggest_mapping: trim, BAD_REQUEST for an empty text, else the call of
\* suggest_field_name with the trimmed text, whose segments it returns with OK
suggest_mapping(r) ==
    /\ Free(r) /\ Bounded
    /\ \E q \in SuggestInputs :
         LET input == trim(q) IN
         /\ req' = [req EXCEPT ![r] =
                      IF input = <<>>
                      THEN [IdleReq EXCEPT !.kind = "suggest_mapping", !.pc = "done",
                                           !.q = q]
                      ELSE [IdleReq EXCEPT !.kind = "suggest_mapping",
                                           !.pc = OnTrimmed(trim(input)),
                                           !.q = input,
                                           !.input = trim(input)]]
         /\ resp' = [resp EXCEPT ![r] =
                       IF input = <<>> THEN Status(BAD_REQUEST) ELSE NoResp]
    /\ calls' = [calls EXCEPT ![r] = <<>>]
    /\ UNCHANGED <<phase, rootsTbl, rootSeq, fieldsTbl, fieldSeq, idx, jieba, jiebaWriter,
                   jiebaReaders, embedHolder>>
    /\ events' = events + 1

\* suggest_field_name called with any text, up to its first query: trim, and
\* the empty result for an empty text
suggest_field_name(r) ==
    /\ Free(r) /\ Bounded
    /\ \E cn_input \in SuggestInputs :
         LET input == trim(cn_input) IN
         /\ req' = [req EXCEPT ![r] =
                      [IdleReq EXCEPT !.kind = "suggest_field_name",
                                      !.pc = OnTrimmed(input),
                                      !.q = cn_input,
                                      !.input = input]]
         /\ resp' = [resp EXCEPT ![r] = NoResp]
    /\ calls' = [calls EXCEPT ![r] = <<>>]
    /\ UNCHANGED <<phase, rootsTbl, rootSeq, fieldsTbl, fieldSeq, idx, jieba, jiebaWriter,
                   jiebaReaders, embedHolder>>
    /\ events' = events + 1

\* the whole-phrase query (a failed query is an empty list) and the return of
\* the single Segment when it found candidates
suggest_full(r) ==
    /\ Suggests(r, "full")
    /\ \E dbOk \in BOOLEAN :
         \E full_candidates \in (IF dbOk THEN Candidates(rootsTbl, req[r].input)
                                          ELSE {<<>>}) :
            /\ Log(r, [Call("db_select", WordRoots, dbOk, IdsOf(full_candidates))
                         EXCEPT !.texts = <<req[r].input, Pattern(req[r].input)>>])
            /\ req' = [req EXCEPT ![r].pc = AfterQuery(dbOk, OnFull(full_candidates))]
            /\ resp' = [resp EXCEPT ![r] =
                          IF OnFull(full_candidates) = "done"
                          THEN Returned(req[r].kind,
                                        <<[word |-> req[r].input,
                                           candidates |-> full_candidates]>>)
                          ELSE NoResp]
    /\ UNCHANGED <<phase, rootsTbl, rootSeq, fieldsTbl, fieldSeq, idx, jieba, jiebaWriter,
                   jiebaReaders, embedHolder>>
    /\ UNCHANGED events

\* let jieba_read = JIEBA.read().await; let words = jieba_read.cut(input, false);
suggest_cut(r) ==
    /\ Suggests(r, "cut")
    /\ jiebaWriter = NoProc
    /\ jiebaReaders' = jiebaReaders \cup {r}
    /\ \E words \in Cuts(req[r].input) :
         /\ Log(r, [Call("cut", "", TRUE, <<>>) EXCEPT !.texts = words])
         /\ req' = [req EXCEPT ![r].pc = "token", ![r].words = words, ![r].i = 1]
    /\ UNCHANGED <<phase, rootsTbl, rootSeq, fieldsTbl, fieldSeq, idx, jieba, jiebaWriter,
                   embedHolder, resp>>
    /\ UNCHANGED events

\* one round of the loop over the words: a token that trims to nothing is
\* skipped; else the query of the token (a failed query is an empty list) and
\* the push of its Segment.  After the last word the segments are returned
\* and the read guard is dropped.
suggest_token(r) ==
    /\ Suggests(r, "token")
    /\ LET i == req[r].i
           trimmed == trim(req[r].words[i])
           last == i = Len(req[r].words)
       IN \E dbOk \in BOOLEAN :
            \E candidates \in (IF trimmed # <<>> /\ dbOk THEN Candidates(rootsTbl, trimmed)
                                                         ELSE {<<>>}) :
               LET segments == IF trimmed = <<>> THEN req[r].segs
                               ELSE PushSegment(req[r].segs, trimmed, candidates)
               IN /\ (trimmed = <<>>) => dbOk
                  /\ IF trimmed = <<>> THEN UNCHANGED calls
                     ELSE Log(r, [Call("db_select", WordRoots, dbOk, IdsOf(candidates))
                                    EXCEPT !.texts = <<trimmed, Pattern(trimmed)>>])
                  /\ req' = [req EXCEPT ![r].pc = AfterQuery(dbOk, IF last THEN "done"
                                                                      ELSE "token"),
                                        ![r].i = i + 1,
                                        ![r].segs = segments]
                  /\ resp' = [resp EXCEPT ![r] =
                                IF last THEN Returned(req[r].kind, segments)
                                ELSE NoResp]
                  /\ jiebaReaders' = IF last THEN jiebaReaders \ {r} ELSE jiebaReaders
    /\ UNCHANGED <<phase, rootsTbl, rootSeq, fieldsTbl, fieldSeq, idx, jieba, jiebaWriter,
                   embedHolder>>
    /\ UNCHANGED events

-----------------------------------------------------------------------------
(* search_field, search_similar_roots *)

\* The texts the clients search for.
SearchInputs == {<<>>, <<"x">>, <<" ", "z">>}

\* a value the model does not follow (a column, a similarity score)
Elided == "..."

\* the JSON object of a StandardField row: the columns of the SELECT
LexicalRecord(row) ==
    [id |-> row.id, field_cn_name |-> row.field_cn_name, field_en_name |-> Elided,
     composition_ids |-> Elided, data_type |-> Elided,
     associated_terms |-> row.associated_terms, is_standard |-> Elided,
     created_at |-> Elided]

\* serde_json::json!({"id": .., "field_cn_name": .., "field_en_name": .., "score": ..})
SemanticRecord(point) ==
    [id |-> point.id, field_cn_name |-> point.cn_name, field_en_name |-> Elided,
     score |-> Elided]

\* RootSuggestion { id, cn_name, en_abbr, score }
RootSuggestion(point) ==
    [id |-> point.id, cn_name |-> point.cn_name, en_abbr |-> Elided, score |-> Elided]

\* the sets of at most limit members a query with that limit may return out of
\* the matching ones: all of them, or any limit of them
Limited(matching, limit) ==
    IF Cardinality(matching) <= limit THEN {matching}
    ELSE {S \in SUBSET matching : Cardinality(S) = limit}

\* WHERE field_cn_name ILIKE $1 OR associated_terms ILIKE $1 LIMIT 10: the
\* rows fetch_all may return, in the order the store returns them
LexicalResults(table, pattern) ==
    LET matching == {id \in DOMAIN table :
                        \/ LikeMatch(table[id].field_cn_name, pattern)
                        \/ ILike(table[id].associated_terms, pattern)}
    IN UNION {{[k \in 1..Len(ids) |-> table[ids[k]]] : ids \in Orders(S)} :
                S \in Limited(matching, LexicalLimit)}

\* search_points(collection, vector, limit): the points the index may return,
\* in the order it returns them (which points are nearest, and which of them
\* nearer, is the index's matter)
Nearest(coll, limit) ==
    UNION {{[k \in 1..Len(ids) |-> coll[ids[k]]] : ids \in Orders(S)} :
             S \in Limited(DOMAIN coll, limit)}

\* (a bug: the semantic pass runs after a lexical hit too)
OnLexical_AlwaysSemantic(sql_results) == "lock"

\* if !sql_results.is_empty() { return Json(sql_results) }
OnLexical(sql_results) == IF sql_results # <<>> THEN "done" ELSE "lock"

\* (a bug: a failure of the semantic pass is an error response)
SearchFailureStatus_Propagated(ok) == IF ok THEN OK ELSE INTERNAL_SERVER_ERROR

\* Json(..).into_response() and (StatusCode::OK, Json(fields)): OK either way
SearchFailureStatus(ok) == OK

\* the lexical pass of search_field (a failed query is an empty list) and the
\* return of its rows when it found some
search_field_lexical(r) ==
    /\ Free(r) /\ Bounded
    /\ \E q \in SearchInputs, dbOk \in BOOLEAN :
         \E sql_results \in (IF dbOk THEN LexicalResults(fieldsTbl, Pattern(q))
                                     ELSE {<<>>}) :
            /\ req' = [req EXCEPT ![r] =
                         [IdleReq EXCEPT !.kind = "search_field",
                                         !.pc = OnLexical(sql_results),
                                         !.q = q]]
            /\ resp' = [resp EXCEPT ![r] =
                          IF OnLexical(sql_results) = "done"
                          THEN [Status(OK) EXCEPT !.records =
                                  [k \in 1..Len(sql_results) |->
                                     LexicalRecord(sql_results[k])]]
                          ELSE NoResp]
            /\ calls' = [calls EXCEPT ![r] =
                           <<[Call("db_select", StandardFields, dbOk, IdsOf(sql_results))
                                EXCEPT !.texts = <<Pattern(q)>>]>>]
    /\ UNCHANGED <<phase, rootsTbl, rootSeq, fieldsTbl, fieldSeq, idx, jieba, jiebaWriter,
                   jiebaReaders, embedHolder>>
    /\ events' = events + 1

\* { let mut model = state.embed_model.lock(); model.embed(vec![&query.q], None) }
\* a failed embedding is the empty result
search_field_embed(r) ==
    /\ At(r, "search_field", "embed")
    /\ embedHolder = r
    /\ embedHolder' = drop(embedHolder)
    /\ \E ok \in BOOLEAN :
         /\ Log(r, EmbedCall(ok, <<req[r].q>>))
         /\ IF ok
            THEN /\ req' = [req EXCEPT ![r].pc = "query", ![r].embs = Embed(<<req[r].q>>)]
                 /\ UNCHANGED resp
            ELSE /\ req' = [req EXCEPT ![r].pc = "done"]
                 /\ resp' = [resp EXCEPT ![r] = Status(SearchFailureStatus(FALSE))]
    /\ UNCHANGED <<phase, rootsTbl, rootSeq, fieldsTbl, fieldSeq, idx, jieba, jiebaWriter,
                   jiebaReaders>>
    /\ UNCHANGED events

\* search_points("standard_fields", query_vector, 5); a failed query is the
\* empty result
search_field_query(r) ==
    /\ At(r, "search_field", "query")
    /\ \E ok \in BOOLEAN :
         \E result \in (IF ok THEN Nearest(idx[StandardFields], SemanticLimit) ELSE {<<>>}) :
            /\ Log(r, Call("idx_search", StandardFields, ok, IdsOf(result)))
            /\ resp' = [resp EXCEPT ![r] =
                          [Status(SearchFailureStatus(ok)) EXCEPT !.records =
                             [k \in 1..Len(result) |-> SemanticRecord(result[k])]]]
    /\ req' = [req EXCEPT ![r].pc = "done"]
    /\ UNCHANGED <<phase, rootsTbl, rootSeq, fieldsTbl, fieldSeq, idx, jieba, jiebaWriter,
                   jiebaReaders, embedHolder>>
    /\ UNCHANGED events

\* search_similar_roots up to its embedding: trim, BAD_REQUEST for an empty
\* text, else lock the model
search_similar_roots_lock(r) ==
    /\ Free(r) /\ Bounded
    /\ \E q \in SearchInputs :
         LET input == trim(q) IN
         /\ (input # <<>>) => CanLock(embedHolder)
         /\ embedHolder' = IF input # <<>> THEN r ELSE embedHolder
         /\ req' = [req EXCEPT ![r] =
                      [IdleReq EXCEPT !.kind = "search_similar_roots",
                                      !.pc = IF input # <<>> THEN "embed" ELSE "done",
                                      !.q = q,
                                      !.input = input]]
         /\ resp' = [resp EXCEPT ![r] =
                       IF input = <<>> THEN Status(BAD_REQUEST) ELSE NoResp]
    /\ calls' = [calls EXCEPT ![r] = <<>>]
    /\ UNCHANGED <<phase, rootsTbl, rootSeq, fieldsTbl, fieldSeq, idx, jieba, jiebaWriter,
                   jiebaReaders>>
    /\ events' = events + 1

\* model.embed(vec![input], None) under the lock; a failed embedding is
\* INTERNAL_SERVER_ERROR
search_similar_roots_embed(r) ==
    /\ At(r, "search_similar_roots", "embed")
    /\ embedHolder = r
    /\ embedHolder' = drop(embedHolder)
    /\ \E ok \in BOOLEAN :
         /\ req' = [req EXCEPT ![r].pc = IF ok THEN "query" ELSE "done",
                               ![r].embs = IF ok THEN Embed(<<req[r].input>>) ELSE <<>>]
         /\ resp' = [resp EXCEPT ![r] =
                       IF ok THEN NoResp ELSE Status(INTERNAL_SERVER_ERROR)]
         /\ Log(r, EmbedCall(ok, <<req[r].input>>))
    /\ UNCHANGED <<phase, rootsTbl, rootSeq, fieldsTbl, fieldSeq, idx, jieba, jiebaWriter,
                   jiebaReaders>>
    /\ UNCHANGED events

\* search_points("word_roots", query_vector, 5) and the match on its result
search_similar_roots_query(r) ==
    /\ At(r, "search_similar_roots", "query")
    /\ \E ok \in BOOLEAN :
         \E result \in (IF ok THEN Nearest(idx[WordRoots], SemanticLimit) ELSE {<<>>}) :
            /\ Log(r, Call("idx_search", WordRoots, ok, IdsOf(result)))
            /\ resp' = [resp EXCEPT ![r] =
                          IF ok
                          THEN [Status(OK) EXCEPT !.records =
                                  [k \in 1..Len(result) |-> RootSuggestion(result[k])]]
                          ELSE Status(INTERNAL_SERVER_ERROR)]
    /\ req' = [req EXCEPT ![r].pc = "done"]
    /\ UNCHANGED <<phase, rootsTbl, rootSeq, fieldsTbl, fieldSeq, idx, jieba, jiebaWriter,
                   jiebaReaders, embedHolder>>
    /\ UNCHANGED events

\* The response of a finished handler is delivered and its locals are dropped.
respond(r) ==
    /\ phase = "serving"
    /\ req[r].pc = "done"
    /\ req' = [req EXCEPT ![r] = IdleReq]
    /\ resp' = [resp EXCEPT ![r] = NoResp]
    /\ calls' = [calls EXCEPT ![r] = <<>>]
    /\ UNCHANGED <<phase, rootsTbl, rootSeq, fieldsTbl, fieldSeq, idx, jieba,
                   jiebaWriter, jiebaReaders, embedHolder>>
    /\ UNCHANGED events

-----------------------------------------------------------------------------
(* The service *)

Startup ==
    \/ connect
    \/ ensure_default_admin
    \/ init_custom_dictionary
    \/ init_qdrant_collections
    \/ try_new
    \/ sync_roots_read
    \/ sync_roots_upsert
    \/ sync_fields_read
    \/ sync_fields_upsert
    \/ serve

RootHandler(r) ==
    \/ create_root_insert(r)
    \/ create_root_jieba(r)
    \/ create_root_embed(r)
    \/ create_root_upsert(r)
    \/ update_root_write(r)
    \/ update_root_embed(r)
    \/ update_root_upsert(r)
    \/ delete_root_db(r)
    \/ delete_root_idx(r)
    \/ batch_create_roots_lock(r)
    \/ batch_create_roots_embed(r)
    \/ batch_create_roots_insert(r)
    \/ batch_create_roots_jieba(r)
    \/ batch_create_roots_upsert(r)
    \/ clear_all_roots_db(r)
    \/ clear_all_roots_idx(r)

FieldHandler(r) ==
    \/ create_field_insert(r)
    \/ update_field_write(r)
    \/ field_embed(r)
    \/ field_upsert(r)
    \/ delete_field_db(r)
    \/ delete_field_idx(r)
    \/ clear_all_fields_db(r)
    \/ clear_all_fields_idx(r)

SuggestHandler(r) ==
    \/ suggest_mapping(r)
    \/ suggest_field_name(r)
    \/ suggest_full(r)
    \/ suggest_cut(r)
    \/ suggest_token(r)

\* The process and the routes that write; the routes that only read are
\* studied on stores of their own (SuggestSpec, SearchSpec, DetailsSpec).
Next ==
    \/ Startup
    \/ Restart
    \/ \E r \in Slots :
         \/ RootHandler(r) \/ FieldHandler(r)
         \/ embed_model_lock(r)
         \/ respond(r)

Spec == Init /\ [][Next]_vars

-----------------------------------------------------------------------------
(* The searches, on stores of the sizes their limits are about *)

\* standard_fields after n creates: names x and y by turns, no synonyms
FieldsOf(n) ==
    [id \in 1..n |->
       FieldRow(id, [field_cn_name |-> IF id % 2 = 1 THEN <<"x">> ELSE <<"y">>,
                     associated_terms |-> NoneStr, composition_ids |-> <<>>])]

\* the points of the rows 1..m of a table, as the upserts write them
FieldPointsOf(table, m) ==
    [id \in 1..m |-> Point(id, Vec(FieldText(table[id])), table[id].field_cn_name)]

RootsOf(n) ==
    [id \in 1..n |->
       RootRow(id, [cn_name |-> <<"x">>, en_full_name |-> NoneStr,
                    associated_terms |-> NoneStr])]

RootPointsOf(table, m) ==
    [id \in 1..m |-> Point(id, Vec(RootText(table[id])), table[id].cn_name)]

\* The service is up after n field creates and k root creates of which the
\* first m (and all k) reached the index.
SearchInit ==
    /\ phase = "serving"
    /\ \E n \in 0..MaxFields, m \in 0..MaxPoints, k \in 0..1 :
         /\ m <= n
         /\ fieldsTbl = FieldsOf(n)
         /\ fieldSeq = n + 1
         /\ rootsTbl = RootsOf(k)
         /\ rootSeq = k + 1
         /\ idx = [c \in {WordRoots, StandardFields} |->
                     IF c = StandardFields THEN FieldPointsOf(FieldsOf(n), m)
                     ELSE RootPointsOf(RootsOf(k), k)]
    /\ jieba = Empty
    /\ jiebaWriter = NoProc
    /\ jiebaReaders = {}
    /\ embedHolder = NoProc
    /\ req = [p \in Procs |-> IdleReq]
    /\ resp = [r \in Slots |-> NoResp]
    /\ calls = [p \in Procs |-> <<>>]
    /\ events = 0

SearchHandler(r) ==
    \/ search_field_lexical(r)
    \/ search_field_embed(r)
    \/ search_field_query(r)
    \/ search_similar_roots_lock(r)
    \/ search_similar_roots_embed(r)
    \/ search_similar_roots_query(r)

SearchNext == \E r \in Slots : SearchHandler(r) \/ embed_model_lock(r) \/ respond(r)

SearchSpec == SearchInit /\ [][SearchNext]_vars

-----------------------------------------------------------------------------
(* suggest, on the word roots the clients have created *)

\* standard_word_roots after the creates of the payloads ps, in that order
CreatedRoots(ps) ==
    [id \in 1..Len(ps) |->
       RootRow(id, [ps[id] EXCEPT !.associated_terms = normalize_terms(@)])]

\* The service is up after n root creates, each indexed and learned.
SuggestInit ==
    /\ phase = "serving"
    /\ \E n \in 0..MaxId :
         \E ps \in [1..n -> RootPayloads] :
            /\ rootsTbl = CreatedRoots(ps)
            /\ rootSeq = n + 1
            /\ idx = [c \in {WordRoots, StandardFields} |->
                        IF c = WordRoots THEN RootPointsOf(CreatedRoots(ps), n) ELSE Empty]
            /\ jieba = [w \in {ps[i].cn_name : i \in 1..n} |-> JiebaWeight]
    /\ fieldsTbl = Empty
    /\ fieldSeq = 1
    /\ jiebaWriter = NoProc
    /\ jiebaReaders = {}
    /\ embedHolder = NoProc
    /\ req = [p \in Procs |-> IdleReq]
    /\ resp = [r \in Slots |-> NoResp]
    /\ calls = [p \in Procs |-> <<>>]
    /\ events = 0

SuggestNext == \E r \in Slots : SuggestHandler(r) \/ respond(r)

SuggestSpec == SuggestInit /\ [][SuggestNext]_vars

-----------------------------------------------------------------------------
(* Concurrent requests: two handlers in flight, one request each *)

Workers == {1, 2}

\* The service is up with its stores in step: k word roots, or n standard
\* fields, created, indexed and (the roots) learned; each worker is free, and
\* every route is open to each.
ConcInit ==
    /\ phase = "serving"
    /\ \E k \in 0..1, n \in 0..1 :
         /\ k = 0 \/ n = 0
         /\ rootsTbl = RootsOf(k)
         /\ rootSeq = k + 1
         /\ fieldsTbl = FieldsOf(n)
         /\ fieldSeq = n + 1
         /\ idx = [c \in {WordRoots, StandardFields} |->
                     IF c = StandardFields THEN FieldPointsOf(FieldsOf(n), n)
                     ELSE RootPointsOf(RootsOf(k), k)]
         /\ jieba = [w \in {RootsOf(k)[i].cn_name : i \in 1..k} |-> JiebaWeight]
    /\ jiebaWriter = NoProc
    /\ jiebaReaders = {}
    /\ embedHolder = NoProc
    /\ req = [p \in {Main} \cup Workers |-> IdleReq]
    /\ resp = [r \in Workers |-> NoResp]
    /\ calls = [p \in {Main} \cup Workers |-> <<>>]
    /\ events = 0

\* the handlers that write rows or delete one, and the ones that embed
ConcHandler(r) ==
    \/ create_root_insert(r)
    \/ create_root_jieba(r)
    \/ create_root_embed(r)
    \/ create_root_upsert(r)
    \/ update_root_write(r)
    \/ update_root_embed(r)
    \/ update_root_upsert(r)
    \/ delete_root_db(r)
    \/ delete_root_idx(r)
    \/ create_field_insert(r)
    \/ update_field_write(r)
    \/ field_embed(r)
    \/ field_upsert(r)
    \/ delete_field_db(r)
    \/ delete_field_idx(r)
    \/ batch_create_roots_lock(r)
    \/ batch_create_roots_embed(r)
    \/ batch_create_roots_insert(r)
    \/ batch_create_roots_jieba(r)
    \/ batch_create_roots_upsert(r)
    \/ clear_all_roots_db(r)
    \/ clear_all_roots_idx(r)
    \/ clear_all_fields_db(r)
    \/ clear_all_fields_idx(r)
    \/ SearchHandler(r)
    \/ embed_model_lock(r)

ConcNext == \E r \in Workers : ConcHandler(r)

ConcSpec == ConcInit /\ [][ConcNext]_vars

-----------------------------------------------------------------------------
(* The requests that take the lock of the Tokenizer State or of the model *)

LockHandler(r) ==
    \/ create_root_insert(r)
    \/ create_root_jieba(r)
    \/ create_root_embed(r)
    \/ create_root_upsert(r)
    \/ update_root_write(r)
    \/ update_root_embed(r)
    \/ update_root_upsert(r)
    \/ batch_create_roots_lock(r)
    \/ batch_create_roots_embed(r)
    \/ batch_create_roots_insert(r)
    \/ batch_create_roots_jieba(r)
    \/ batch_create_roots_upsert(r)
    \/ SearchHandler(r)
    \/ suggest_mapping(r)
    \/ suggest_full(r)
    \/ suggest_cut(r)
    \/ suggest_token(r)
    \/ embed_model_lock(r)

LockNext == \E r \in Workers : LockHandler(r)

\* a step of a request that has begun
Running(r) == req[r].pc # "idle" /\ LockHandler(r)

\* The service is up with one word root, created, indexed and learned.
LockInit == ConcInit /\ rootSeq = 2 /\ fieldSeq = 1

\* Two requests at most, at any time of each other.  The runtime runs every
\* handler that has begun to its end: every call returns, and a lock that is
\* free is given to a handler that waits for it.
LockSpec ==
    /\ LockInit /\ [][LockNext]_vars
    /\ \A r \in Workers : WF_vars(Running(r))

-----------------------------------------------------------------------------
(* Standard fields composed of stored word roots, and their details *)

\* the word roots the fields are composed of
ComposingRoots == RootsOf(2)

\* The service is up with two word roots and n standard fields (not composed
\* yet), created, indexed and learned; each worker is free.
DetailsInit ==
    /\ phase = "serving"
    /\ \E n \in 0..1 :
         /\ fieldsTbl = FieldsOf(n)
         /\ fieldSeq = n + 1
         /\ idx = [c \in {WordRoots, StandardFields} |->
                     IF c = StandardFields THEN FieldPointsOf(FieldsOf(n), n)
                     ELSE RootPointsOf(ComposingRoots, Cardinality(DOMAIN ComposingRoots))]
    /\ rootsTbl = ComposingRoots
    /\ rootSeq = Cardinality(DOMAIN ComposingRoots) + 1
    /\ jieba = [w \in {ComposingRoots[i].cn_name : i \in DOMAIN ComposingRoots} |->
                  JiebaWeight]
    /\ jiebaWriter = NoProc
    /\ jiebaReaders = {}
    /\ embedHolder = NoProc
    /\ req = [p \in {Main} \cup Workers |-> IdleReq]
    /\ resp = [r \in Workers |-> NoResp]
    /\ calls = [p \in {Main} \cup Workers |-> <<>>]
    /\ events = 0

DetailsHandler(r) ==
    \/ create_field_insert(r)
    \/ update_field_write(r)
    \/ field_embed(r)
    \/ field_upsert(r)
    \/ get_field_details_field(r)
    \/ get_field_details_roots(r)
    \/ embed_model_lock(r)

DetailsNext == \E r \in Workers : DetailsHandler(r)

DetailsSpec == DetailsInit /\ [][DetailsNext]_vars

-----------------------------------------------------------------------------
(* Properties of the single writes and deletes *)

Done(r) == req[r].pc = "done"
Started(r) == Len(calls[r]) >= 1

SingleWrites == {"create_root", "update_root", "create_field", "update_field"}
Deletes == {"delete_root", "delete_field"}

\* the collection of the Vector Index the handler of a kind calls
CollectionOf(kind) ==
    IF kind \in {"create_root", "update_root", "delete_root", "batch_create_roots",
                 "clear_all_roots", "search_similar_roots"}
    THEN WordRoots ELSE StandardFields

\* the row a single write has stored is in its table, as written
WrittenRowStored(r) ==
    IF CollectionOf(req[r].kind) = WordRoots
    THEN /\ req[r].root.id \in DOMAIN rootsTbl
         /\ rootsTbl[req[r].root.id] = req[r].root
    ELSE /\ req[r].field.id \in DOMAIN fieldsTbl
         /\ fieldsTbl[req[r].field.id] = req[r].field

\* C1: a single create or update whose relational write fails returns the
\* failure at once: the failed write is the only call the request makes (no
\* embedding, no upsert, no add_word) and the response is the error.
C1_FailFast ==
    \A r \in Slots :
        (req[r].kind \in SingleWrites /\ Started(r) /\ ~calls[r][1].ok) =>
            /\ Done(r)
            /\ resp[r].status = INTERNAL_SERVER_ERROR
            /\ Len(calls[r]) = 1
            /\ calls[r][1].op \in {"db_insert", "db_update"}

C1_Witness ==
    \E r \in Slots :
        /\ req[r].kind = "update_field"
        /\ Done(r)
        /\ ~calls[r][1].ok
        /\ resp[r].status = INTERNAL_SERVER_ERROR

\* C2: a single create or update whose relational write succeeded answers
\* with its success status when it returns, whatever the embedding and the
\* upsert did; it makes no second relational call and the row is stored as
\* written.
C2_SuccessStands ==
    \A r \in Slots :
        (req[r].kind \in SingleWrites /\ Done(r) /\ calls[r][1].ok) =>
            /\ resp[r].status =
                 IF req[r].kind \in {"create_root", "create_field"} THEN CREATED ELSE OK
            /\ WrittenRowStored(r)
            /\ \A i \in 2..Len(calls[r]) : calls[r][i].op \in {"add_word", "embed", "upsert"}

\* the upsert failed after a successful write
C2_Witness ==
    \E r \in Slots :
        /\ req[r].kind = "create_root"
        /\ Done(r)
        /\ calls[r][1].ok
        /\ calls[r][Len(calls[r])].op = "upsert"
        /\ ~calls[r][Len(calls[r])].ok
        /\ resp[r].status = CREATED

\* C3: a delete whose relational delete affects no row answers NOT_FOUND and
\* issues no Vector Index delete.
C3_NotFoundNoIndexDelete ==
    \A r \in Slots :
        (req[r].kind \in Deletes /\ Started(r) /\ calls[r][1].ok /\ calls[r][1].rows = 0) =>
            /\ Done(r)
            /\ resp[r].status = NOT_FOUND
            /\ Ops(r, "idx_delete") = {}

C3_Witness ==
    \E r \in Slots :
        /\ req[r].kind = "delete_root"
        /\ Done(r)
        /\ calls[r][1].ok
        /\ calls[r][1].rows = 0
        /\ req[r].id \in DOMAIN idx[WordRoots]

\* C4: a delete that removed a row issues one Vector Index delete, for the
\* request's identifier in the entity's own collection, after the relational
\* delete has completed; no delete issues an index delete before its
\* relational delete or for another identifier.
C4_IndexDeleteAfterRowDelete ==
    \A r \in Slots :
        req[r].kind \in Deletes =>
            /\ \A i \in Ops(r, "idx_delete") :
                 /\ i = 2
                 /\ calls[r][1].op = "db_delete"
                 /\ calls[r][1].ok
                 /\ calls[r][1].rows > 0
                 /\ calls[r][1].ids = <<req[r].id>>
                 /\ calls[r][i].ids = <<req[r].id>>
                 /\ calls[r][i].coll = CollectionOf(req[r].kind)
                 /\ calls[r][i].coll = calls[r][1].coll
            /\ (Done(r) /\ calls[r][1].rows > 0) =>
                 /\ Len(calls[r]) = 2
                 /\ calls[r][2].op = "idx_delete"
                 /\ resp[r].status = NO_CONTENT
                 /\ req[r].id \notin DOMAIN rootsTbl \/ req[r].kind # "delete_root"
                 /\ req[r].id \notin DOMAIN fieldsTbl \/ req[r].kind # "delete_field"

\* the point of the deleted root is gone from word_roots
C4_Witness ==
    \E r \in Slots :
        /\ req[r].kind = "delete_root"
        /\ Done(r)
        /\ calls[r][1].rows > 0
        /\ calls[r][2].ok
        /\ req[r].id \notin DOMAIN idx[WordRoots]
        /\ rootsTbl # Empty

-----------------------------------------------------------------------------
(* Properties of the Tokenizer State and of the index after a create *)

Learned(word) == word \in DOMAIN jieba /\ jieba[word] = JiebaWeight

HasPoint(id) == id \in DOMAIN idx[WordRoots]

PointOf(root) == Point(root.id, Vec(RootText(root)), root.cn_name)

Inserts(r) == Ops(r, "db_insert")
OkInserts(r) == {i \in Inserts(r) : calls[r][i].ok}
FailedInserts(r) == {i \in Inserts(r) : ~calls[r][i].ok}

\* C5: when a create_root, an update_root or a row of a batch import has
\* written its row and the request returns, the Tokenizer State holds the
\* row's cn_name with the weight 99999.
C5_EveryWriteLearns ==
    \A r \in Slots :
        /\ (req[r].kind \in {"create_root", "update_root"} /\ Done(r) /\ calls[r][1].ok) =>
               Learned(req[r].root.cn_name)
        /\ (req[r].kind = "batch_create_roots" /\ Done(r)) =>
               \A i \in OkInserts(r) : Learned(req[r].items[calls[r][i].rows].cn_name)

\* a create_root has stored the row id and returned
Created(id) ==
    \E r \in Slots :
        /\ req[r].kind = "create_root"
        /\ Done(r)
        /\ calls[r][1].ok
        /\ req[r].root.id = id

\* the name of the row id that a create_root stored is learned
CreatedLearned(id) ==
    \A r \in Slots :
        (req[r].kind = "create_root" /\ Done(r) /\ calls[r][1].ok /\ req[r].root.id = id) =>
            Learned(req[r].root.cn_name)

\* a step of a request that is in flight: every step of a handler after its
\* first one, and the return of the response
InFlight(r) ==
    \/ create_root_jieba(r) \/ create_root_embed(r) \/ create_root_upsert(r)
    \/ update_root_embed(r) \/ update_root_upsert(r)
    \/ delete_root_idx(r)
    \/ batch_create_roots_embed(r)
    \/ batch_create_roots_insert(r) \/ batch_create_roots_jieba(r)
    \/ batch_create_roots_upsert(r)
    \/ embed_model_lock(r)
    \/ field_embed(r) \/ field_upsert(r) \/ delete_field_idx(r)
    \/ clear_all_roots_idx(r) \/ clear_all_fields_idx(r)
    \/ suggest_full(r) \/ suggest_cut(r) \/ suggest_token(r)
    \/ search_field_embed(r) \/ search_field_query(r)
    \/ search_similar_roots_embed(r) \/ search_similar_roots_query(r)
    \/ respond(r)

\* The runtime runs main and every handler in flight to its end.  Requests
\* arrive or not, and the process is restarted or not: nothing in the program
\* schedules either, and a resync runs at startup only.
LiveSpec ==
    /\ Init /\ [][Next]_vars
    /\ WF_vars(Startup)
    /\ \A r \in Slots : WF_vars(InFlight(r))

\* C6 as stated: after a create_root that stored its row, the Tokenizer State
\* holds the row's name (add_word with weight 99999, by which jieba returns
\* the name as one token), and word_roots eventually holds a point of the
\* row's id.
C6_EventuallyIndexed ==
    \A id \in 1..MaxId :
        [](Created(id) => (CreatedLearned(id) /\ <>HasPoint(id)))

-----------------------------------------------------------------------------
(* Properties of the batch import *)

\* a batch import whose batched embedding succeeded has returned
BatchDone(r) == req[r].kind = "batch_create_roots" /\ Done(r) /\ calls[r][1].ok

\* the points the Vector Index has received from the request
PointsReceived(r) ==
    IF Ops(r, "upsert") = {} THEN 0
    ELSE Len(calls[r][CHOOSE u \in Ops(r, "upsert") : TRUE].pts)

\* C7: a batch import of N items whose batched embedding succeeded reports
\* success_count + failure_count = N, failure_count the number of failed
\* inserts, one error per failed row, and sends success_count points to the
\* Vector Index in at most one upsert.
C7_BatchCounts ==
    \A r \in Slots :
        BatchDone(r) =>
            LET report == resp[r].report IN
            /\ resp[r].status = OK
            /\ report.success_count + report.failure_count = Len(req[r].items)
            /\ report.failure_count = Cardinality(FailedInserts(r))
            /\ report.success_count = Cardinality(OkInserts(r))
            /\ Len(report.errors) = report.failure_count
            /\ {report.errors[k].row : k \in 1..Len(report.errors)}
                   = {calls[r][i].rows : i \in FailedInserts(r)}
            /\ Cardinality(Ops(r, "upsert")) <= 1
            /\ PointsReceived(r) = report.success_count

\* two items, exactly one failed row, one point events
C7_Witness ==
    \E r \in Slots :
        /\ BatchDone(r)
        /\ Len(req[r].items) = 2
        /\ resp[r].report.success_count = 1
        /\ resp[r].report.failure_count = 1
        /\ PointsReceived(r) = 1

\* C8: a batch import whose batched embedding succeeded attempts the insert of
\* every row, in order, whatever rows failed, and every row it inserted is
\* stored when it returns.
C8_BatchNeverAborts ==
    \A r \in Slots :
        BatchDone(r) =>
            LET at == SeqOf(Inserts(r)) IN
            /\ Len(at) = Len(req[r].items)
            /\ \A k \in 1..Len(at) : calls[r][at[k]].rows = k
            /\ \A i \in OkInserts(r) :
                 LET id == calls[r][i].ids[1] IN
                 /\ id \in DOMAIN rootsTbl
                 /\ rootsTbl[id] = RootRow(id, req[r].items[calls[r][i].rows])

\* the first row failed, the second was still inserted
C8_Witness ==
    \E r \in Slots :
        /\ BatchDone(r)
        /\ Len(req[r].items) = 2
        /\ \E i \in FailedInserts(r) : calls[r][i].rows = 1
        /\ \E i \in OkInserts(r) : calls[r][i].rows = 2

\* C9: every point a batch import upserts carries the id of a row it inserted
\* and the embedding at that row's input position, which is the embedding of
\* that row's own text.
C9_BatchEmbeddingAligned ==
    \A r \in Slots :
        req[r].kind = "batch_create_roots" =>
            \A u \in Ops(r, "upsert") :
                \A k \in 1..Len(calls[r][u].pts) :
                    LET p == calls[r][u].pts[k] IN
                    \E i \in OkInserts(r) :
                        /\ calls[r][i].ids = <<p.id>>
                        /\ p.vec = Embed(calls[r][1].texts)[calls[r][i].rows]
                        /\ p.vec = Vec(RootText(req[r].items[calls[r][i].rows]))
                        /\ p.cn_name = req[r].items[calls[r][i].rows].cn_name

\* the first row failed and the second, of another text, was upserted
C9_Witness ==
    \E r \in Slots :
        /\ BatchDone(r)
        /\ Len(req[r].items) = 2
        /\ req[r].items[1] # req[r].items[2]
        /\ \E i \in FailedInserts(r) : calls[r][i].rows = 1
        /\ \E i \in OkInserts(r) : calls[r][i].rows = 2
        /\ PointsReceived(r) = 1

\* C10: a batch import returns its report with status OK and has attempted the
\* insert of every row, also when the batched embedding failed.
C10_BatchToleratesEmbeddingFailure ==
    \A r \in Slots :
        (req[r].kind = "batch_create_roots" /\ Done(r)) =>
            /\ resp[r].status = OK
            /\ Cardinality(Inserts(r)) = Len(req[r].items)

-----------------------------------------------------------------------------
(* Properties of the resynchronization *)

\* the read of a collection's table that main's resync made, as a position of
\* main's call log (0 when the resync has not run)
SyncRead(coll) ==
    LET at == {i \in Ops(Main, "db_select") : i > 1 /\ calls[Main][i].coll = coll}
    IN IF at = {} THEN 0 ELSE CHOOSE i \in at : TRUE

\* the resync of a collection has returned, its read succeeded, and either the
\* table was empty or every row was embedded and the upsert succeeded
SyncClean(coll, table, returned) ==
    LET k == SyncRead(coll) IN
    /\ phase \in returned
    /\ k > 0
    /\ calls[Main][k].ok
    /\ IF DOMAIN table = {}
       THEN \A i \in Ops(Main, "upsert") : calls[Main][i].coll # coll
       ELSE /\ Len(calls[Main]) > k
            /\ calls[Main][k + 1].op = "upsert"
            /\ calls[Main][k + 1].coll = coll
            /\ calls[Main][k + 1].ok
            /\ calls[Main][k + 1].ids = calls[Main][k].ids

\* C11: after a resync of a collection that met no store, embedding or index
\* failure, the point ids of the collection are the ids of the table, also
\* when the table is empty.
C11_ResyncIsFullReplacement ==
    /\ SyncClean(WordRoots, rootsTbl, {"boot_fields"}) =>
           DOMAIN idx[WordRoots] = DOMAIN rootsTbl
    /\ SyncClean(StandardFields, fieldsTbl, {"boot_done"}) =>
           DOMAIN idx[StandardFields] = DOMAIN fieldsTbl

-----------------------------------------------------------------------------
(* Properties of the clear operations *)

Clears == {"clear_all_roots", "clear_all_fields"}

\* a clear whose truncate succeeded and whose delete of all points failed
ClearedHalf(r) ==
    /\ req[r].kind \in Clears
    /\ Done(r)
    /\ calls[r][1].ok
    /\ Len(calls[r]) = 2
    /\ ~calls[r][2].ok

\* C12: a clear whose truncate succeeded and whose delete of all points
\* failed does not answer with the status of a full success.
C12_HalfClearReportedApart ==
    \A r \in Slots : ClearedHalf(r) => resp[r].status # OK

-----------------------------------------------------------------------------
(* Properties of suggest *)

\* suggest_field_name has been called for the request
Suggesting(r) ==
    \/ req[r].kind = "suggest_field_name"
    \/ req[r].kind = "suggest_mapping" /\ req[r].input # <<>>

\* the whole-phrase query has been made and has returned candidates
WholePhraseHit(r) == Suggesting(r) /\ calls[r] # <<>> /\ calls[r][1].ids # <<>>

\* the whole-phrase query has been made and has returned nothing
WholePhraseMiss(r) == Suggesting(r) /\ calls[r] # <<>> /\ calls[r][1].ids = <<>>

\* C13: once the whole-phrase query of the trimmed input has returned
\* candidates, suggest makes no other call (it neither reads the Tokenizer
\* State nor queries a token) and returns the one Segment of the input with
\* those candidates.
C13_WholePhraseSkipsSegmentation ==
    \A r \in Slots :
        WholePhraseHit(r) =>
            /\ Len(calls[r]) = 1
            /\ r \notin jiebaReaders
            /\ calls[r][1].texts[1] = trim(req[r].q)
            /\ Done(r)
            /\ Len(resp[r].segments) = 1
            /\ resp[r].segments[1].word = trim(req[r].q)
            /\ IdsOf(resp[r].segments[1].candidates) = calls[r][1].ids
            /\ \A k \in 1..Len(resp[r].segments[1].candidates) :
                 resp[r].segments[1].candidates[k] = rootsTbl[calls[r][1].ids[k]]

\* the input "a b" matched as a whole and came back as one Segment
C13_Witness ==
    \E r \in Slots :
        /\ WholePhraseHit(r)
        /\ Done(r)
        /\ Len(req[r].input) > 1
        /\ Len(resp[r].segments) = 1
        /\ resp[r].segments[1].candidates # <<>>

\* the tokens the loop keeps: trimmed, the empty ones left out
RECURSIVE KeptTokens(_)
KeptTokens(words) ==
    IF words = <<>> THEN <<>>
    ELSE IF trim(Head(words)) = <<>> THEN KeptTokens(Tail(words))
    ELSE <<trim(Head(words))>> \o KeptTokens(Tail(words))

\* C14: when the whole-phrase query returned nothing, suggest returns one
\* Segment per token of the tokenizer that is not empty once trimmed, in the
\* tokenizer's order, each with the candidates its own query returned, an
\* empty list included.
C14_OneSegmentPerToken ==
    \A r \in Slots :
        (WholePhraseMiss(r) /\ Done(r)) =>
            LET words == calls[r][2].texts
                tokens == KeptTokens(words)
                segments == resp[r].segments
            IN /\ calls[r][2].op = "cut"
               /\ Len(segments) = Len(tokens)
               /\ Len(calls[r]) = 2 + Len(tokens)
               /\ \A k \in 1..Len(tokens) :
                    /\ segments[k].word = tokens[k]
                    /\ calls[r][2 + k].texts[1] = tokens[k]
                    /\ IdsOf(segments[k].candidates) = calls[r][2 + k].ids

\* a blank token was skipped, one token found nothing, another found a root
C14_Witness ==
    \E r \in Slots :
        /\ WholePhraseMiss(r)
        /\ Done(r)
        /\ Len(calls[r][2].texts) > Len(resp[r].segments)
        /\ \E k \in 1..Len(resp[r].segments) : resp[r].segments[k].candidates = <<>>
        /\ \E k \in 1..Len(resp[r].segments) : resp[r].segments[k].candidates # <<>>

\* C15: in every Segment suggest returns, no candidate found through its
\* synonyms only comes before a candidate whose name is the Segment's word,
\* and among the candidates of either sort no name comes before a smaller one.
C15_ExactFirstThenByName ==
    \A r \in Slots :
        (Suggesting(r) /\ Done(r)) =>
            \A s \in 1..Len(resp[r].segments) :
                LET word == resp[r].segments[s].word
                    c == resp[r].segments[s].candidates
                IN \A i, j \in 1..Len(c) :
                     i < j =>
                       /\ (c[j].cn_name = word) => (c[i].cn_name = word)
                       /\ ((c[i].cn_name = word) = (c[j].cn_name = word)) =>
                              ~StrLess(c[j].cn_name, c[i].cn_name)

\* the root named y, inserted after x, comes first for the word y, before x
\* that was found through its synonyms
C15_Witness ==
    \E r \in Slots :
        /\ Suggesting(r)
        /\ Done(r)
        /\ \E s \in 1..Len(resp[r].segments) :
             LET word == resp[r].segments[s].word
                 c == resp[r].segments[s].candidates
             IN /\ Len(c) = 2
                /\ c[1].cn_name = word
                /\ c[2].cn_name # word
                /\ StrLess(c[2].cn_name, c[1].cn_name)
                /\ c[2].id < c[1].id

\* C16: suggest_field_name on a text that is empty once trimmed returns no
\* Segment and has made no call: no query, no read of the Tokenizer State;
\* suggest_mapping makes no call for such a text either.
C16_EmptyInputEmptyResult ==
    \A r \in Slots :
        /\ (Suggesting(r) /\ trim(req[r].q) = <<>>) =>
               /\ Done(r)
               /\ resp[r].segments = <<>>
               /\ resp[r].status = 0
               /\ calls[r] = <<>>
               /\ r \notin jiebaReaders
        /\ (req[r].kind = "suggest_mapping" /\ trim(req[r].q) = <<>>) =>
               /\ Done(r)
               /\ calls[r] = <<>>

\* suggest_field_name has returned for the text of one space
C16_Witness ==
    \E r \in Slots :
        /\ Suggesting(r)
        /\ Done(r)
        /\ req[r].q = <<" ">>
        /\ resp[r].segments = <<>>

-----------------------------------------------------------------------------
(* Properties of the searches *)

SearchingFields(r) == req[r].kind = "search_field" /\ calls[r] # <<>>

\* the rows of standard_fields that the text of the request matches
LexicalHits(r) ==
    {id \in DOMAIN fieldsTbl :
        \/ LikeMatch(fieldsTbl[id].field_cn_name, Pattern(req[r].q))
        \/ ILike(fieldsTbl[id].associated_terms, Pattern(req[r].q))}

Min(a, b) == IF a <= b THEN a ELSE b

\* a call of the request that failed
FailedCall(r, op) == \E i \in Ops(r, op) : ~calls[r][i].ok

\* C17: once the lexical query of search_field has returned rows, the search
\* makes no other call (no embedding, no index query) and answers OK with
\* exactly those rows: matching rows, all of them up to the limit of 10.
C17_LexicalHitSkipsSemantic ==
    \A r \in Slots :
        (SearchingFields(r) /\ calls[r][1].ids # <<>>) =>
            /\ Len(calls[r]) = 1
            /\ Done(r)
            /\ resp[r].status = OK
            /\ Len(resp[r].records) = Min(Cardinality(LexicalHits(r)), LexicalLimit)
            /\ \A k \in 1..Len(resp[r].records) :
                 /\ resp[r].records[k].id \in LexicalHits(r)
                 /\ resp[r].records[k] = LexicalRecord(fieldsTbl[resp[r].records[k].id])
            /\ \A j, k \in 1..Len(resp[r].records) :
                 j # k => resp[r].records[j].id # resp[r].records[k].id

\* more than 10 rows match and 10 are returned
C17_Witness ==
    \E r \in Slots :
        /\ SearchingFields(r)
        /\ Done(r)
        /\ Cardinality(LexicalHits(r)) > LexicalLimit
        /\ Len(resp[r].records) = LexicalLimit

\* C18: a search_field whose lexical query returned nothing answers OK; with
\* no record when the embedding or the index query failed, and else with the
\* points the index returned, at most 5.
C18_SemanticPassDegrades ==
    \A r \in Slots :
        (SearchingFields(r) /\ calls[r][1].ids = <<>> /\ Done(r)) =>
            /\ resp[r].status = OK
            /\ (FailedCall(r, "embed") \/ FailedCall(r, "idx_search")) =>
                   resp[r].records = <<>>
            /\ Len(resp[r].records) <= SemanticLimit
            /\ ~(FailedCall(r, "embed") \/ FailedCall(r, "idx_search")) =>
                   /\ Len(calls[r]) = 3
                   /\ IdsOf(resp[r].records) = calls[r][3].ids
                   /\ Len(resp[r].records) =
                          Min(Cardinality(DOMAIN idx[StandardFields]), SemanticLimit)

\* the index holds points and its query failed: OK and no record
C18_Witness ==
    \E r \in Slots :
        /\ SearchingFields(r)
        /\ Done(r)
        /\ FailedCall(r, "idx_search")
        /\ idx[StandardFields] # Empty
        /\ resp[r].status = OK
        /\ resp[r].records = <<>>

\* C19: a search_similar_roots whose embedding or index query failed answers
\* OK with no record.
C19_RootSearchDegrades ==
    \A r \in Slots :
        (/\ req[r].kind = "search_similar_roots"
         /\ Done(r)
         /\ (FailedCall(r, "embed") \/ FailedCall(r, "idx_search"))) =>
            /\ resp[r].status = OK
            /\ resp[r].records = <<>>

\* the fields of a record of the lexical pass
LexicalShape == DOMAIN LexicalRecord(NoField)

\* C20: every record search_field returns has the fields of a record of the
\* lexical pass, whichever pass served the query.
C20_UniformRecordShape ==
    \A r \in Slots :
        (req[r].kind = "search_field" /\ Done(r)) =>
            \A k \in 1..Len(resp[r].records) : DOMAIN resp[r].records[k] = LexicalShape


-----------------------------------------------------------------------------
(* The two locks *)

\* task p is inside model.embed
Embedding(p) == phase = "serving" /\ req[p].pc = "embed"

\* a call to the relational store or to the index is in progress in task p
InStoreCall(p) ==
    IF p = Main THEN phase \in {"boot_roots_upsert", "boot_fields_upsert"}
    ELSE req[p].pc \in {"insert", "upsert", "idx_delete", "idx_clear", "query", "full", "token"}

\* C21: at most one embedding inference runs at any time, whatever requests
\* are in flight together, and the task running it holds the mutex of the
\* embedding model.
C21_OneInferenceAtATime ==
    /\ \A p, q \in Workers : Embedding(p) /\ Embedding(q) => p = q
    /\ \A p \in Workers : Embedding(p) => embedHolder = p
    /\ \A p \in Workers :
         \A i \in Ops(p, "embed") : req[p].pc # "embed" /\ embedHolder # p

\* one worker is inside model.embed while the other has reached its own
\* embedding and waits for the mutex
C21_Witness ==
    \E p, q \in Workers :
        /\ p # q
        /\ Embedding(p)
        /\ req[q].pc = "lock"
        /\ embedHolder = p

\* C22: the mutex of the embedding model is never held while a call to the
\* index or to the relational store is in progress.
C22_EmbedLockNotAcrossIO ==
    \A p \in Procs : embedHolder = p => ~InStoreCall(p)

\* C23: the write lock of JIEBA is never held while a call to the index or to
\* the relational store is in progress.
C23_JiebaWriteLockNotAcrossIO ==
    \A p \in Procs : jiebaWriter = p => ~InStoreCall(p)

-----------------------------------------------------------------------------
(* Races of the single writes and deletes *)

\* every call worker r has made succeeded
AllOk(r) == \A i \in 1..Len(calls[r]) : calls[r][i].ok

\* the point ids of a collection that have no row in its table
Orphans(coll) ==
    DOMAIN idx[coll] \ (IF coll = WordRoots THEN DOMAIN rootsTbl ELSE DOMAIN fieldsTbl)

\* worker r has finished a create, an update or a delete, no call of which failed
FinishedClean(r) ==
    /\ req[r].pc = "done"
    /\ req[r].kind \in SingleWrites \cup Deletes
    /\ AllOk(r)

\* C30: when concurrent creates, updates and deletes of one entity kind have
\* all completed, and no call to the store, the model or the index failed,
\* the index holds no point whose id is absent from the table.
C30_NoOrphanAfterRaces ==
    (\A r \in Workers : FinishedClean(r)) =>
        Orphans(WordRoots) = {} /\ Orphans(StandardFields) = {}

-----------------------------------------------------------------------------
(* Startup before the first request *)

\* main() goes from its last startup step to axum::serve
Serves == phase = "boot_done" /\ phase' = "serving"

\* C24: the service starts accepting requests only after the warm-up has
\* replayed learn for every WordRoot name of the store: when main() starts to
\* serve, every stored name is in the Tokenizer State, and no handler has run
\* before.
C24_ServesAfterWarmup ==
    [][Serves =>
         /\ \A id \in DOMAIN rootsTbl : Learned(rootsTbl[id].cn_name)
         /\ \A r \in Slots : req[r].pc = "idle"]_vars

\* C25: when the read of the warm-up failed, or the embedding model failed to
\* load, the service never starts to serve.
C25_FailedStartupNeverServes ==
    [][/\ Serves => calls[Main][1].ok
       /\ phase = "exited" => phase' # "serving"]_vars

-----------------------------------------------------------------------------
(* The Tokenizer State and the stored synonyms *)

\* a step that starts the process anew
ProcessStarts == phase # "boot_pool" /\ phase' = "boot_pool"

\* C27: the Tokenizer State of a running process is append-only: no step
\* removes a learned word or changes its weight, and the steps of delete_root
\* and clear_all_roots leave it as it is.
C27_TokenizerAppendOnly ==
    [][~ProcessStarts =>
         /\ \A w \in DOMAIN jieba : w \in DOMAIN jieba' /\ jieba'[w] = jieba[w]
         /\ \A r \in Slots :
              (req'[r] # req[r] /\ req'[r].kind \in {"delete_root", "clear_all_roots"}) =>
                  jieba' = jieba]_vars

\* a root has been deleted and its name is still learned though no row bears it
C27_Witness ==
    \E r \in Slots :
        /\ req[r].kind = "delete_root"
        /\ Done(r)
        /\ req[r].wrote
        /\ \E w \in DOMAIN jieba : \A id \in DOMAIN rootsTbl : rootsTbl[id].cn_name # w

\* a synonym string is normalized: no comma of either sort, no whitespace at
\* its ends, and never two spaces in a row
Normalized(s) ==
    /\ \A i \in 1..Len(s) : s[i] \notin {",", "FWC"}
    /\ s # <<>> => ~IsWhitespace(s[1]) /\ ~IsWhitespace(s[Len(s)])
    /\ \A i \in 1..(Len(s) - 1) : ~(IsWhitespace(s[i]) /\ IsWhitespace(s[i + 1]))

\* C28: every synonym string stored in standard_word_roots is normalized,
\* whatever creates, updates and batch imports have written.
C28_StoredSynonymsNormalized ==
    \A id \in DOMAIN rootsTbl :
        rootsTbl[id].associated_terms.some => Normalized(rootsTbl[id].associated_terms.v)

\* rows written by a create or a batch import and by an update hold the
\* synonyms "Y B" (events with a full-width comma) and "a b" (events with a comma
\* and spaces around)
C28_Witness ==
    /\ \E r \in Slots : req[r].kind = "update_root" /\ Done(r) /\ req[r].wrote
    /\ \E id \in DOMAIN rootsTbl : rootsTbl[id].associated_terms = Some(<<"Y", " ", "B">>)
    /\ \E id \in DOMAIN rootsTbl : rootsTbl[id].associated_terms = Some(<<"a", " ", "b">>)

-----------------------------------------------------------------------------
(* Failed reads of suggest *)

\* C29: a failed read of suggest is never an error: after a failed
\* whole-phrase query suggest goes on to segment the input, a failed query of
\* a token gives the token's Segment an empty candidate list, and the
\* response carries no error status.
C29_SuggestSwallowsReadFailures ==
    \A r \in Slots :
        Suggesting(r) =>
            /\ resp[r].status \notin {INTERNAL_SERVER_ERROR, BAD_REQUEST}
            /\ (req[r].kind = "suggest_mapping" /\ Done(r)) => resp[r].status = OK
            /\ (calls[r] # <<>> /\ ~calls[r][1].ok) =>
                   /\ calls[r][1].ids = <<>>
                   /\ IF Len(calls[r]) = 1 THEN req[r].pc = "cut"
                      ELSE calls[r][2].op = "cut"
            /\ (WholePhraseMiss(r) /\ Done(r)) =>
                   LET tokens == KeptTokens(calls[r][2].texts) IN
                   /\ Len(resp[r].segments) = Len(tokens)
                   /\ \A k \in 1..Len(tokens) :
                        ~calls[r][2 + k].ok => resp[r].segments[k].candidates = <<>>

\* the whole-phrase query failed, the input was segmented, and the failed
\* query of a token that names a stored root gave it no candidate
C29_Witness ==
    \E r \in Slots :
        /\ WholePhraseMiss(r)
        /\ Done(r)
        /\ ~calls[r][1].ok
        /\ \E k \in 1..Len(resp[r].segments) :
             /\ ~calls[r][2 + k].ok
             /\ resp[r].segments[k].candidates = <<>>
             /\ Matches(rootsTbl, resp[r].segments[k].word) # {}

-----------------------------------------------------------------------------
(* The details of a composed field *)

\* worker r has read the details of a field and got its roots
DetailsRead(r) ==
    /\ req[r].kind = "get_field_details"
    /\ Done(r)
    /\ resp[r].status = OK

\* worker w has stored a field with the composition list
Composed(w, list) ==
    /\ req[w].kind \in {"create_field", "update_field"}
    /\ req[w].wrote
    /\ req[w].field.composition_ids = list

\* C26: the details of a field whose composition list is L, a list of ids of
\* stored word roots written by a create or an update, are the word roots of
\* L in the order of L.
C26_DetailsInCompositionOrder ==
    \A r \in Workers :
        DetailsRead(r) =>
            LET L == req[r].ids IN
            (\A k \in 1..Len(L) : L[k] \in DOMAIN rootsTbl) =>
                resp[r].records = [k \in 1..Len(L) |-> rootsTbl[L[k]]]

\* a field was created or updated with the composition <<2, 1>>, and its
\* details, read after the write, are root 2, then root 1
C26_Witness ==
    \E w, r \in Workers :
        /\ Composed(w, <<2, 1>>)
        /\ DetailsRead(r)
        /\ req[r].id = req[w].field.id
        /\ req[r].ids = <<2, 1>>
        /\ IdsOf(resp[r].records) = <<2, 1>>

-----------------------------------------------------------------------------
(* A batch import whose batched embedding fails *)

\* the batch import of r has made its batched embedding call, which failed
BatchEmbedFailed(r) ==
    /\ req[r].kind = "batch_create_roots"
    /\ Started(r)
    /\ ~calls[r][1].ok

\* C34: the step in which the batched embedding of a batch import fails leaves
\* the table of word roots, the Tokenizer State and the Vector Index as they
\* were and answers INTERNAL_SERVER_ERROR; the request is then over: it makes
\* no call after the failed embedding, whatever another request does.
C34_FailedBatchEmbeddingChangesNothing ==
    [][\A r \in Workers :
         /\ (~BatchEmbedFailed(r) /\ BatchEmbedFailed(r)') =>
                /\ rootsTbl' = rootsTbl /\ rootSeq' = rootSeq
                /\ jieba' = jieba
                /\ idx' = idx
                /\ Done(r)'
                /\ resp'[r].status = INTERNAL_SERVER_ERROR
         /\ (BatchEmbedFailed(r) /\ BatchEmbedFailed(r)') =>
                /\ calls'[r] = calls[r]
                /\ req'[r] = req[r]
                /\ resp'[r] = resp[r]]_vars

\* a batch import of two items has returned after its failed embedding
C34_Witness ==
    \E r \in Workers :
        /\ BatchEmbedFailed(r)
        /\ Done(r)
        /\ Len(req[r].items) = MaxBatch
        /\ Len(calls[r]) = 1
        /\ resp[r].status = INTERNAL_SERVER_ERROR

-----------------------------------------------------------------------------
(* Two updates of one entity *)

\* both workers have completed an update of the entity id of the collection,
\* no call of which failed
BothUpdated(kind, id) ==
    \A r \in Workers :
        /\ req[r].kind = kind
        /\ req[r].id = id
        /\ Done(r)
        /\ Len(calls[r]) >= 1
        /\ AllOk(r)

\* C31: once two concurrent updates of one word root, or of one standard
\* field, have both completed without a failed call, the point of the entity
\* carries the name of its row.
C31_LastWriteIsLastIndexWrite ==
    \A id \in 1..MaxId :
        /\ BothUpdated("update_root", id) =>
               /\ id \in DOMAIN rootsTbl /\ id \in DOMAIN idx[WordRoots]
               /\ idx[WordRoots][id].cn_name = rootsTbl[id].cn_name
        /\ BothUpdated("update_field", id) =>
               /\ id \in DOMAIN fieldsTbl /\ id \in DOMAIN idx[StandardFields]
               /\ idx[StandardFields][id].cn_name = fieldsTbl[id].field_cn_name

-----------------------------------------------------------------------------
(* Identifiers and points *)

\* the ids the step gives to new rows of a table
Assigned(table, table_next) == DOMAIN table_next \ DOMAIN table

\* C32: a point k and a row k are of the same entity: when an INSERT gives the
\* id k to a new word root or standard field, the Vector Index holds no point
\* k, which could only be the point of an earlier entity; also after a clear.
C32_IdNotReassignedUnderAPoint ==
    [][/\ Assigned(rootsTbl, rootsTbl') \cap DOMAIN idx[WordRoots] = {}
       /\ Assigned(fieldsTbl, fieldsTbl') \cap DOMAIN idx[StandardFields] = {}]_vars

-----------------------------------------------------------------------------
(* No request waits forever *)

\* C33: a create_root, an update, a batch import, a search or a suggest that
\* has begun completes, whatever the other request in flight does: none waits
\* forever for the lock of the Tokenizer State or for the lock of the model.
\* (Each worker serves one request: in the end it has not begun or is done.)
C33_EveryRequestCompletes ==
    \A r \in Workers : <>[](req[r].pc = "idle" \/ Done(r))

\* a create_root and a suggest that cut its text have been in flight together
\* and both have completed
C33_Witness ==
    \E r, w \in Workers :
        /\ req[r].kind = "create_root" /\ Done(r)
        /\ Ops(r, "upsert") # {}
        /\ Suggesting(w) /\ Done(w)
        /\ Ops(w, "cut") # {}

=============================================================================
